---- MODULE Spec2Model ----
(***************************************************************************)
(* Model of the colour palette generator (src/src/*.ts).                   *)
(*                                                                         *)
(* The library is a set of pure functions over JavaScript numbers.  Real   *)
(* numbers are modelled in fixed point:                                    *)
(*   - a lightness (0..100) is an integer number of 1/LU units; LU is a    *)
(*     common multiple of every divisor the scale arithmetic uses (the 18  *)
(*     half-steps, 900 level units, the 0.3/0.7 blend, 510 and 765), so   *)
(*     the reference values, the ties between them and the HSL/average     *)
(*     measurements are exact rationals;                                   *)
(*   - an alpha (0..1) is an integer number of 1/AU units, AU a common     *)
(*     multiple of 10 and of every step count, so the alpha ramp is exact. *)
(* Rounding of IEEE doubles (relative error about 1e-16) is not modelled.  *)
(* A number that can be NaN or +/-Infinity is a record [kind, v].          *)
(* A string is a sequence of one-character strings, so that trimming,      *)
(* case, padding and parsing are computed character by character; a        *)
(* palette is a function from its keys to such strings.  Where a statement *)
(* of the source computes a value that later statements read, the value    *)
(* is the argument of a function local to the definition, F[value].        *)
(***************************************************************************)
EXTENDS Integers, Sequences, FiniteSets, TLC

VARIABLES
    \* one call of findClosestLevel / calculateEvenScale (lightness.ts)
    inputLightness,         \* argument: a number, possibly non-finite
    lightnessMethod,        \* argument of findClosestLevel
    baseLevel,              \* argument of calculateEvenScale
    closestLevel,           \* result of findClosestLevel, 0 before the call
    scale,                  \* result of calculateEvenScale, << >> before the call
    \* one call of getAlphaForLevel (transparentColor.ts)
    level,                  \* argument
    transparentOriginLevel, \* argument
    alpha,                  \* result in 1/AU units, -1 before the call
    \* one call of generateColorPalette (palette.ts)
    input,                  \* argument: one configuration or an array of them
    palette,                \* result, empty before the call
    returned,               \* whether the call has returned
    \* one call of calculateTransparentColor (transparentColor.ts)
    targetSolid,            \* argument targetSolidColor: a string
    background,             \* argument backgroundColor: a string
    compositeAlpha,         \* argument fixedAlpha, in 1/AU units
    rgbaString,             \* result: a string, << >> before the call
    \* one call of setTransparentPalette (transparentColor.ts)
    tokenConfig,            \* argument colorConfig
    tokenPalette,           \* argument palette, which the call writes into
    tokensSet,              \* whether the call has returned
    \* one call of calculateHueShift (hueShift.ts)
    hueCall,                \* the arguments, a record
    hueState,               \* "idle", "called", "looping" or "returned"
    newHue,                 \* result: a number, possibly non-finite
    \* one call of adjustToLightness (lightness.ts)
    adjustCall,             \* the arguments, a record
    search,                 \* the loop variables of the binary search
    tried,                  \* the values of mid so far, in the order of the iterations
    adjusted                \* result: a string, << >> before the return

scaleVars == <<inputLightness, lightnessMethod, baseLevel, closestLevel, scale>>
alphaVars == <<level, transparentOriginLevel, alpha>>
paletteVars == <<input, palette, returned>>
transparentVars == <<targetSolid, background, compositeAlpha, rgbaString>>
tokenVars == <<tokenConfig, tokenPalette, tokensSet>>
hueVars == <<hueCall, hueState, newHue>>
adjustVars == <<adjustCall, search, tried, adjusted>>
vars == <<scaleVars, alphaVars, paletteVars, transparentVars, tokenVars, hueVars,
          adjustVars>>

-----------------------------------------------------------------------------
(* Numbers *)

\* lightness unit: lcm(4, 9, 5, 7, 11, 13, 17) = 3063060 units per 1.0
LU == 4 * 9 * 5 * 7 * 11 * 13 * 17
\* alpha unit: 10 * lcm(1, 3, 5, ..., 17, 18) = 15315300 units per 1.0
AU == 10 * (2 * 9 * 5 * 7 * 11 * 13 * 17)

Fin(x) == [kind |-> "num", v |-> x]
NaN == [kind |-> "nan", v |-> 0]
PosInf == [kind |-> "inf", v |-> 1]
NegInf == [kind |-> "inf", v |-> 0 - 1]
isFinite(x) == x.kind = "num"
\* a finite double of a magnitude from which adding or subtracting 360 gives
\* the same double again (about 2^62 and beyond); it has no fixed-point value
Huge == [kind |-> "huge", v |-> 1]
NegHuge == [kind |-> "huge", v |-> 0 - 1]

Abs(x) == IF x < 0 THEN 0 - x ELSE x
Min(a, b) == IF a < b THEN a ELSE b
Max(a, b) == IF a > b THEN a ELSE b

\* floor((3 * p + 7 * h) / 10), i.e. p * 0.3 + h * 0.7, without overflow
Blend(p, h) ==
    3 * (p \div 10) + 7 * (h \div 10) + (3 * (p % 10) + 7 * (h % 10)) \div 10

-----------------------------------------------------------------------------
(* constants.ts *)

SCALE_LEVELS == <<50, 100, 200, 300, 400, 500, 600, 700, 800, 900, 950>>
MIN_LEVEL == 50
MAX_LEVEL == 950
STANDARD_LIGHTNESS_SCALE ==
    (50 :> 96) @@ (100 :> 92) @@ (200 :> 83) @@ (300 :> 74) @@ (400 :> 65) @@
    (500 :> 56) @@ (600 :> 47) @@ (700 :> 38) @@ (800 :> 29) @@ (900 :> 20) @@
    (950 :> 16)
MAX_LIGHTNESS == 96
MIN_LIGHTNESS == 16
MIN_ALPHA == AU \div 10
MAX_ALPHA == AU

Levels == {SCALE_LEVELS[i] : i \in 1..Len(SCALE_LEVELS)}
LightnessMethods == {"hsl", "perceptual", "average", "hybrid"}

-----------------------------------------------------------------------------
(* lightness.ts: scale generation *)

\* MAX_LIGHTNESS - normalizedLevel * (MAX_LIGHTNESS - MIN_LIGHTNESS), with
\* normalizedLevel = (level - MIN_LEVEL) / (MAX_LEVEL - MIN_LEVEL); exact,
\* (MAX_LIGHTNESS - MIN_LIGHTNESS) * LU is a multiple of MAX_LEVEL - MIN_LEVEL
LinearLightness(lv) ==
    MAX_LIGHTNESS * LU
        - (lv - MIN_LEVEL)
            * (((MAX_LIGHTNESS - MIN_LIGHTNESS) * LU) \div (MAX_LEVEL - MIN_LEVEL))

getAdjustedLightness(lv, method) ==
    CASE method \in {"hsl", "average"} -> LinearLightness(lv)
      [] method = "hybrid" ->
            Blend(STANDARD_LIGHTNESS_SCALE[lv] * LU, LinearLightness(lv))
      [] OTHER -> STANDARD_LIGHTNESS_SCALE[lv] * LU

\* the reference lightness findClosestLevel compares with (lines 254-257)
LevelLightness(lv, method) ==
    IF method # "perceptual"
        THEN getAdjustedLightness(lv, method)
        ELSE STANDARD_LIGHTNESS_SCALE[lv] * LU

\* the reducer's comparison (line 267): keep the earlier level unless the
\* current one is strictly closer
CloserLevel_orEqual(currentDiff, closestDiff) == currentDiff <= closestDiff
\* a second mutant keeps the level that is farther away
CloserLevel_farther(currentDiff, closestDiff) == currentDiff > closestDiff
CloserLevel(currentDiff, closestDiff) == currentDiff < closestDiff

RECURSIVE ReduceClosest(_, _, _, _)
ReduceClosest(i, closest, x, method) ==
    IF i > Len(SCALE_LEVELS) THEN closest
    ELSE LET current == SCALE_LEVELS[i]
             currentDiff == Abs(x - LevelLightness(current, method))
             closestDiff == Abs(x - LevelLightness(closest, method))
         IN  IF CloserLevel(currentDiff, closestDiff)
                 THEN ReduceClosest(i + 1, current, x, method)
                 ELSE ReduceClosest(i + 1, closest, x, method)

\* SCALE_LEVELS.reduce without an initial value: starts from the first level
findClosestLevel(inLightness, method) ==
    LET x == IF isFinite(inLightness) THEN inLightness.v ELSE 50 * LU
    IN  ReduceClosest(2, SCALE_LEVELS[1], x, method)

\* a step of 100 would skip level 50 or 950 from most anchors
STEP_SIZE_wide == 2 * 50
STEP_SIZE == 50

\* lines 310-313 and 320-323: the i-th value above / below the anchor
UpperLightness_down(clamped, interval, i) ==
    Max(clamped - interval * i, MIN_LIGHTNESS * LU)
UpperLightness(clamped, interval, i) ==
    Min(clamped + interval * i, MAX_LIGHTNESS * LU)
LowerLightness(clamped, interval, i) ==
    Max(clamped - interval * i, MIN_LIGHTNESS * LU)

\* lines 283-286 (and 331-334)
ClampLightness_none(x) == x
ClampLightness(x) == Max(MIN_LIGHTNESS * LU, Min(MAX_LIGHTNESS * LU, x))

\* line 288
EffectiveBaseLevel(inBaseLevel) ==
    IF inBaseLevel \in Levels THEN inBaseLevel ELSE 500

\* line 281
EffectiveLightness(inLightness) ==
    IF isFinite(inLightness) THEN inLightness.v ELSE 50 * LU

\* Every level is a multiple of STEP_SIZE, so the step counts are integers;
\* the two intervals are quotients rounded down to 1/LU.
calculateEvenScale(inLightness, inBaseLevel) ==
    LET clamped == ClampLightness(EffectiveLightness(inLightness))
        base == EffectiveBaseLevel(inBaseLevel)
        baseIndex == (base - MIN_LEVEL) \div STEP_SIZE
        totalSteps == (MAX_LEVEL - MIN_LEVEL) \div STEP_SIZE
        upwardSteps == baseIndex
        downwardSteps == totalSteps - baseIndex
        availableUpward == MAX_LIGHTNESS * LU - clamped
        availableDownward == clamped - MIN_LIGHTNESS * LU
        upwardInterval ==
            IF upwardSteps > 0 THEN availableUpward \div upwardSteps ELSE 0
        downwardInterval ==
            IF downwardSteps > 0 THEN availableDownward \div downwardSteps ELSE 0
        evenScale ==
            [lv \in {base} \cup {base - i * STEP_SIZE : i \in 1..upwardSteps}
                           \cup {base + i * STEP_SIZE : i \in 1..downwardSteps} |->
                IF lv = base THEN clamped
                ELSE IF lv < base
                    THEN UpperLightness(clamped, upwardInterval, (base - lv) \div STEP_SIZE)
                    ELSE LowerLightness(clamped, downwardInterval, (lv - base) \div STEP_SIZE)]
    IN  [lv \in {l \in Levels : l \in DOMAIN evenScale} |->
            ClampLightness(evenScale[lv])]

-----------------------------------------------------------------------------
(* transparentColor.ts: alpha of a level *)

\* line 96
STEP_SIZE_alpha == 50

\* line 112; the mutant counts the dark side's steps from MIN_LEVEL
DarkTotalSteps_fromMin(origin) == (origin - MIN_LEVEL) \div STEP_SIZE_alpha
DarkTotalSteps(origin) == (MAX_LEVEL - origin) \div STEP_SIZE_alpha

\* line 109; the mutant forgets the MIN_ALPHA offset
LightAlpha_noOffset(stepAlpha, currentStep) == stepAlpha * currentStep
LightAlpha(stepAlpha, currentStep) == MIN_ALPHA + stepAlpha * currentStep

\* every step count divides MAX_ALPHA - MIN_ALPHA, so stepAlpha is exact
getAlphaForLevel(lv, origin) ==
    IF lv = origin THEN MAX_ALPHA
    ELSE LET alphaDifference == MAX_ALPHA - MIN_ALPHA
         IN  IF lv < origin
             THEN LET totalSteps == (origin - MIN_LEVEL) \div STEP_SIZE_alpha
                      currentStep == (lv - MIN_LEVEL) \div STEP_SIZE_alpha
                  IN  IF totalSteps = 0 THEN MIN_ALPHA
                      ELSE LightAlpha(alphaDifference \div totalSteps, currentStep)
             ELSE LET totalSteps == DarkTotalSteps(origin)
                      currentStep == (lv - origin) \div STEP_SIZE_alpha
                  IN  IF totalSteps = 0 THEN MIN_ALPHA
                      ELSE MAX_ALPHA - (alphaDifference \div totalSteps) * currentStep

-----------------------------------------------------------------------------
(* Arithmetic helpers *)

\* <<q, r>> with a * b = q * c + r and 0 <= r < c, for a, b >= 0 and
\* 0 < c < 2^30, computed so that no intermediate product leaves 32 bits:
\* b is taken apart in digits of base 64, and a small b by doubling
RECURSIVE MulDivQR(_, _, _)
MulDivQR(a, b, c) ==
    IF a = 0 \/ b = 0 THEN <<0, 0>>
    ELSE IF a <= 2147483647 \div b THEN <<(a * b) \div c, (a * b) % c>>
    ELSE IF b < 2 * 64
        THEN LET half == MulDivQR(a, b \div 2, c)
                 q2 == (2 * half[1]) + ((2 * half[2]) \div c)
                 r2 == (2 * half[2]) % c
             IN  IF b % 2 = 0 THEN <<q2, r2>>
                 ELSE <<q2 + (a \div c) + ((r2 + (a % c)) \div c),
                        (r2 + (a % c)) % c>>
        ELSE LET upper == MulDivQR(a, b \div 64, c)
                 lower == MulDivQR(a, b % 64, c)
                 shifted == MulDivQR(upper[2], 64, c)
                 rest == shifted[2] + lower[2]
             IN  <<(64 * upper[1]) + shifted[1] + lower[1] + (rest \div c),
                   rest % c>>

\* floor(a * b / c) for a, b >= 0
MulDiv(a, b, c) == MulDivQR(a, b, c)[1]

\* a * b / c for a of either sign, rounded towards zero
MulDivSigned(a, b, c) ==
    IF a < 0 THEN 0 - MulDiv(0 - a, b, c) ELSE MulDiv(a, b, c)

\* MulDivQR(a, b, c1 * c2) without recursion, for a divisor that is given as
\* a product of two factors below 2^15: with a = qa * c1 + ra and
\* b = qb * c2 + rb,
\*   a * b = (qa * qb) * c1 * c2 + (qa * rb) * c1 + (ra * qb) * c2 + ra * rb
MulDivQRBy(a, b, c1, c2) ==
    LET qa == a \div c1
        ra == a % c1
        qb == b \div c2
        rb == b % c2
        rest == ((qa * rb) % c2) * c1 + ((ra * qb) % c1) * c2 + ra * rb
    IN  <<qa * qb + (qa * rb) \div c2 + (ra * qb) \div c1 + rest \div (c1 * c2),
          rest % (c1 * c2)>>

\* floor(a * b / (c1 * c2)) for a, b >= 0
MulDivBy(a, b, c1, c2) == MulDivQRBy(a, b, c1, c2)[1]

\* the quotient of <<q, r>> rounded to the nearest integer, halves up
RoundQR(qr, c) == qr[1] + (IF 2 * qr[2] >= c THEN 1 ELSE 0)

\* a * b / (c1 * c2) rounded to the nearest integer, halves up (Math.round)
MulDivRoundBy(a, b, c1, c2) == RoundQR(MulDivQRBy(a, b, c1, c2), c1 * c2)

\* a * b / (c1 * c2) for a of either sign, rounded towards zero
MulDivSignedBy(a, b, c1, c2) ==
    IF a < 0 THEN 0 - MulDivBy(0 - a, b, c1, c2) ELSE MulDivBy(a, b, c1, c2)

\* floor(a * b / c) for a, b >= 0 and b * c below 2^31
MulDivSmall(a, b, c) == (a \div c) * b + ((a % c) * b) \div c

RECURSIVE GCD(_, _)
GCD(a, b) == IF b = 0 THEN a ELSE GCD(b, a % b)

-----------------------------------------------------------------------------
(* Strings are sequences of one-character strings *)

HexDigits == <<"0", "1", "2", "3", "4", "5", "6", "7", "8", "9",
               "a", "b", "c", "d", "e", "f">>
UpperHexDigits == <<"0", "1", "2", "3", "4", "5", "6", "7", "8", "9",
                    "A", "B", "C", "D", "E", "F">>
HexChars == {HexDigits[i] : i \in 1..16} \cup {UpperHexDigits[i] : i \in 1..16}
Whitespace == {" "}

\* parseInt(ch, 16) of one hexadecimal digit
HexValue(ch) ==
    IF \E i \in 1..16 : HexDigits[i] = ch
        THEN (CHOOSE i \in 1..16 : HexDigits[i] = ch) - 1
        ELSE (CHOOSE i \in 1..16 : UpperHexDigits[i] = ch) - 1

\* n.toString(), n >= 0
RECURSIVE ToDigits(_)
ToDigits(n) ==
    IF n < 10 THEN <<HexDigits[n + 1]>>
    ELSE ToDigits(n \div 10) \o <<HexDigits[(n % 10) + 1]>>

\* String.prototype.trim
RECURSIVE TrimLeft(_)
TrimLeft(str) ==
    IF Len(str) > 0 /\ str[1] \in Whitespace THEN TrimLeft(Tail(str)) ELSE str
RECURSIVE TrimRight(_)
TrimRight(str) ==
    IF Len(str) > 0 /\ str[Len(str)] \in Whitespace
        THEN TrimRight(SubSeq(str, 1, Len(str) - 1)) ELSE str
Trim(str) == TrimRight(TrimLeft(str))

-----------------------------------------------------------------------------
(* colorUtils (src/src/index.ts, lines 59-260) *)

RGB(r, g, b) == [r |-> r, g |-> g, b |-> b]
Black == RGB(0, 0, 0)

\* clamp of rgbToHex; the channels of the model are integers, which
\* Math.round leaves as they are
ClampChannel(value) == Max(0, Min(255, value))

\* c.toString(16) without the padding
HexByte_unpadded(c) ==
    IF c < 16 THEN <<HexDigits[c + 1]>>
              ELSE <<HexDigits[(c \div 16) + 1], HexDigits[(c % 16) + 1]>>
\* c.toString(16).padStart(2, "0")
HexByte(c) == <<HexDigits[(c \div 16) + 1], HexDigits[(c % 16) + 1]>>

rgbToHex(rgb) ==
    <<"#">> \o HexByte(ClampChannel(rgb.r)) \o HexByte(ClampChannel(rgb.g))
            \o HexByte(ClampChannel(rgb.b))

\* /^#[0-9a-fA-F]{6}$/
HexPattern(str) ==
    /\ Len(str) = 7
    /\ str[1] = "#"
    /\ \A i \in 2..7 : str[i] \in HexChars

\* lines 94-118: the length check, the pattern check and parseInt of the
\* three pairs of digits
ParseNormalizedHex(normalizedHex) ==
    IF Len(normalizedHex) # 7 THEN Black
    ELSE IF ~HexPattern(normalizedHex) THEN Black
    ELSE RGB(16 * HexValue(normalizedHex[2]) + HexValue(normalizedHex[3]),
             16 * HexValue(normalizedHex[4]) + HexValue(normalizedHex[5]),
             16 * HexValue(normalizedHex[6]) + HexValue(normalizedHex[7]))

\* the mutant falls back to white for the empty string
ParseCleanHex_emptyWhite(cleanHex) ==
    IF Len(cleanHex) = 0 THEN RGB(255, 255, 255)
    ELSE ParseNormalizedHex(IF cleanHex[1] = "#" THEN cleanHex
                                                 ELSE <<"#">> \o cleanHex)
\* lines 88-92: the empty string, and the "#" put in front when it is missing
ParseCleanHex(cleanHex) ==
    IF Len(cleanHex) = 0 THEN Black
    ELSE ParseNormalizedHex(IF cleanHex[1] = "#" THEN cleanHex
                                                 ELSE <<"#">> \o cleanHex)

hexToRGB(hex) == ParseCleanHex(Trim(hex))

\* line 87, String(hex): a string is its own text, a number (a natural
\* number here) is written in decimal digits
StringOf(type, value) == IF type = "number" THEN ToDigits(value) ELSE value
\* the text hexToRGB reads from the colour of a configuration as it was passed
ColorText(colorConfig) == StringOf(colorConfig.colorType, colorConfig.color)

Max3(a, b, c) == Max(a, Max(b, c))
Min3(a, b, c) == Min(a, Min(b, c))

\* h in degrees, s and l in percent, all in 1/LU units.  l is exact
\* ((max + min) / 510 * 100), h and s are rounded down to 1/LU.
\* one sixth of the hue circle
Sixth == 60 * LU

\* lines 178-200, for channels r, g, b in 0..255 with maximum max and
\* minimum min; d = max - min
HSLOfChannels(r, g, b, max, min, d) ==
    [\* ((g - b) / d + (g < b ? 6 : 0)) / 6 * 360 and its two siblings
     h |-> IF max = min THEN 0
           ELSE IF max = r
              THEN (IF g < b THEN 6 * Sixth - MulDivSmall(Sixth, b - g, d)
                             ELSE MulDivSmall(Sixth, g - b, d))
           ELSE IF max = g
              THEN (IF b < r THEN 2 * Sixth - MulDivSmall(Sixth, r - b, d)
                             ELSE 2 * Sixth + MulDivSmall(Sixth, b - r, d))
           ELSE (IF r < g THEN 4 * Sixth - MulDivSmall(Sixth, g - r, d)
                          ELSE 4 * Sixth + MulDivSmall(Sixth, r - g, d)),
     \* l > 0.5 on the 0..1 scale
     s |-> IF max = min THEN 0
           ELSE IF max + min > 255
              THEN MulDivSmall(100 * LU, d, 510 - max - min)
              ELSE MulDivSmall(100 * LU, d, max + min),
     l |-> (max + min) * ((100 * LU) \div 510)]

HSLOfRGB(r, g, b) ==
    HSLOfChannels(r, g, b, Max3(r, g, b), Min3(r, g, b), Max3(r, g, b) - Min3(r, g, b))

rgbToHSL(rgb) ==
    HSLOfRGB(ClampChannel(rgb.r), ClampChannel(rgb.g), ClampChannel(rgb.b))

\* ((h % 360) + 360) % 360 for a finite h
Mod360(h) == h % (360 * LU)

\* h, s, l finite, in 1/LU units; c, x, m are fractions in units of
\* 1 / (100 * LU)
HslOne == 100 * LU

\* Math.round((v + m) * 255), with m2 = 2 * m
\* 2 * HslOne = 24024 * 25500
HslChannel(v, m2) == MulDivRoundBy(2 * v + m2, 255, 24024, 25500)

\* lines 211-245: the channels of the sector of the hue
SectorRGB(sector, c, x, m2) ==
    RGB(HslChannel(CASE sector = 0 -> c [] sector = 1 -> x [] sector = 2 -> 0
                     [] sector = 3 -> 0 [] sector = 4 -> x [] OTHER -> c, m2),
        HslChannel(CASE sector = 0 -> x [] sector = 1 -> c [] sector = 2 -> c
                     [] sector = 3 -> x [] sector = 4 -> 0 [] OTHER -> 0, m2),
        HslChannel(CASE sector = 0 -> 0 [] sector = 1 -> 0 [] sector = 2 -> x
                     [] sector = 3 -> c [] sector = 4 -> c [] OTHER -> x, m2))

\* lines 209-210: x of the chroma c, and m = l - c / 2, kept doubled so that
\* the half is exact; 60 * LU = 13104 * 14025
RGBOfChroma(h, l, c) ==
    SectorRGB(h \div (60 * LU), c,
              MulDivBy(c, 60 * LU - Abs((h % (120 * LU)) - 60 * LU), 13104, 14025),
              2 * l - c)

\* line 208, for h in [0, 360) and s, l in [0, 100]; HslOne = 17160 * 17850
RGBOfHSL(h, s, l) ==
    RGBOfChroma(h, l, MulDivBy(HslOne - Abs(2 * l - HslOne), s, 17160, 17850))

hslToRGB(h0, s0, l0) ==
    RGBOfHSL(Mod360(h0), Max(0, Min(100 * LU, s0)), Max(0, Min(100 * LU, l0)))

-----------------------------------------------------------------------------
(* lightness.ts: measuring lightness *)

\* toLinear(c) * 100000 rounded, for the channel values c = 0..255
\* (c / 255 / 12.92 up to 0.04045, ((c / 255 + 0.055) / 1.055) ^ 2.4 above)
ToLinearTable == <<
    0, 30, 61, 91, 121, 152, 182, 212, 243, 273, 304, 335,
    368, 402, 439, 478, 518, 561, 605, 651, 700, 750, 802, 857,
    913, 972, 1033, 1096, 1161, 1229, 1298, 1370, 1444, 1521, 1600, 1681,
    1764, 1850, 1938, 2029, 2122, 2217, 2315, 2416, 2519, 2624, 2732, 2843,
    2956, 3071, 3190, 3310, 3434, 3560, 3689, 3820, 3955, 4092, 4231, 4374,
    4519, 4667, 4817, 4971, 5127, 5286, 5448, 5613, 5781, 5951, 6125, 6301,
    6480, 6663, 6848, 7036, 7227, 7421, 7619, 7819, 8022, 8228, 8438, 8650,
    8866, 9084, 9306, 9531, 9759, 9990, 10224, 10462, 10702, 10946, 11193, 11444,
    11697, 11954, 12214, 12477, 12744, 13014, 13287, 13563, 13843, 14126, 14413, 14703,
    14996, 15293, 15593, 15896, 16203, 16513, 16827, 17144, 17465, 17789, 18116, 18447,
    18782, 19120, 19462, 19807, 20156, 20508, 20864, 21223, 21586, 21953, 22323, 22697,
    23074, 23455, 23840, 24228, 24620, 25016, 25415, 25818, 26225, 26636, 27050, 27468,
    27889, 28315, 28744, 29177, 29614, 30054, 30499, 30947, 31399, 31855, 32314, 32778,
    33245, 33716, 34191, 34670, 35153, 35640, 36131, 36625, 37124, 37626, 38133, 38643,
    39157, 39676, 40198, 40724, 41254, 41789, 42327, 42869, 43415, 43966, 44520, 45079,
    45641, 46208, 46778, 47353, 47932, 48515, 49102, 49693, 50289, 50888, 51492, 52100,
    52712, 53328, 53948, 54572, 55201, 55834, 56471, 57112, 57758, 58408, 59062, 59720,
    60383, 61050, 61721, 62396, 63076, 63760, 64448, 65141, 65837, 66539, 67244, 67954,
    68669, 69387, 70110, 70838, 71569, 72306, 73046, 73791, 74540, 75294, 76052, 76815,
    77582, 78354, 79130, 79910, 80695, 81485, 82279, 83077, 83880, 84687, 85499, 86316,
    87137, 87962, 88792, 89627, 90466, 91310, 92158, 93011, 93869, 94731, 95597, 96469,
    97345, 98225, 99110, 100000>>

toLinear(c) == ToLinearTable[Max(0, Min(255, c)) + 1]

\* t and the largest multiple of step that keep the cube at or below n and
\* the root at or below 1000
CubeRootDigit(n, t, step) ==
    t + step * Cardinality({d \in 1..9 :
                                /\ t + d * step <= 1000
                                /\ (t + d * step) * (t + d * step) * (t + d * step) <= n})

\* the largest t with t^3 <= n, for 0 <= n <= 10^9, digit by digit
CubeRootFloor(n) ==
    CubeRootDigit(n, CubeRootDigit(n, CubeRootDigit(n, CubeRootDigit(n, 0, 1000), 100),
                                   10), 1)

\* Math.pow(y, 1 / 3) in units of 10^-7, for y in units of 10^-9 (y >= 10^6):
\* the integer cube root refined by one linear step
RefineCubeRoot(y, t) ==
    t * 10000 + MulDivSmall((y - t * t * t) * 100, 100, 3 * t * t)
CubeRoot(y) == RefineCubeRoot(y, CubeRootFloor(y))

\* lines 69-76: CIE L* in 1/LU units of a luminance in units of 10^-9
LStar(luminance) ==
    \* threshold = 216 / 24389 = 0.008856451...
    IF luminance > 8856451
        THEN MulDivBy(CubeRoot(luminance), 116 * LU, 3125, 3200) - 16 * LU
        \* luminance * 24389 / 27, with 24389 / 27 * LU / 1000 = 2766852
        ELSE MulDivBy(luminance, 2766852, 1000, 1000)

getPerceptualLightness(rgb) ==
    LStar(2126 * toLinear(rgb.r) + 7152 * toLinear(rgb.g) + 722 * toLinear(rgb.b))

getHSLLightness(rgb) == rgbToHSL(rgb).l

\* (r + g + b) / 3 / 255 * 100, exact
getAverageLightness(rgb) == (rgb.r + rgb.g + rgb.b) * ((100 * LU) \div 765)

getHybridLightness(rgb) == Blend(getPerceptualLightness(rgb), rgbToHSL(rgb).l)

MeasureRGB(rgb, method) ==
    CASE method = "hsl" -> getHSLLightness(rgb)
      [] method = "perceptual" -> getPerceptualLightness(rgb)
      [] method = "average" -> getAverageLightness(rgb)
      [] OTHER -> getHybridLightness(rgb)

getLightness(color, method) == MeasureRGB(hexToRGB(color), method)

-----------------------------------------------------------------------------
(* lightness.ts: adjusting a colour to a lightness *)

MAX_ITERATIONS == 100
\* 0.001 in 1/LU units, rounded down: for an integer x, x < 0.001 * LU
\* exactly when x <= PRECISION_THRESHOLD
PRECISION_THRESHOLD == LU \div 1000

BelowPrecision(x) == x <= PRECISION_THRESHOLD

adjustToHSLLightness(h, s, targetLightness) ==
    rgbToHex(hslToRGB(h, s, targetLightness))

\* low, high, mid and bestL are halved up to 18 times, which doubles do
\* exactly: they are counted in units of 100 / SearchUnits, SearchUnits = 2^18
SearchUnits == 262144
\* the lightness in 1/LU units, rounded down, of x units:
\* x * 100 * LU / 2^18 = x * 19144125 / (128 * 128)
MidLightness(x) == MulDivBy(19144125, x, 128, 128)
\* the mutant compares the interval with a tenth of the threshold
NarrowInterval_tenth(width) == width <= (SearchUnits \div 1000000)
\* high - low < 0.001 (line 224): below 0.001 * SearchUnits / 100 = 2.62 units
NarrowInterval(width) == width <= (SearchUnits \div 100000)

\* the loop variables before the first iteration (lines 200-205)
SearchStart ==
    [i |-> 0, low |-> 0, high |-> SearchUnits, bestL |-> SearchUnits \div 2,
     bestDiff |-> PosInf, mid |-> 0, done |-> FALSE]

\* the mutant also takes a midpoint that is as good as the best one
ImprovesBest_orEqual(diff, bestDiff) == ~isFinite(bestDiff) \/ diff <= bestDiff.v
\* diff < bestDiff (line 215)
ImprovesBest(diff, bestDiff) == ~isFinite(bestDiff) \/ diff < bestDiff.v

\* the mutant continues in the wrong half of the interval
SearchUpdate_wrongHalf(st, mid, currentLightness, targetLightness) ==
    LET diff == Abs(currentLightness - targetLightness)
        better == ImprovesBest(diff, st.bestDiff)
        exit == BelowPrecision(diff) \/ NarrowInterval(st.high - st.low)
    IN  [i |-> st.i + 1,
         low |-> IF ~exit /\ ~(currentLightness < targetLightness) THEN mid ELSE st.low,
         high |-> IF ~exit /\ currentLightness < targetLightness THEN mid ELSE st.high,
         bestL |-> IF better THEN mid ELSE st.bestL,
         bestDiff |-> IF better THEN Fin(diff) ELSE st.bestDiff,
         mid |-> mid,
         done |-> exit \/ st.i + 1 >= MAX_ITERATIONS]
\* lines 212-230: the updates of one iteration, given the middle lightness
\* and the measure of its colour
SearchUpdate(st, mid, currentLightness, targetLightness) ==
    LET diff == Abs(currentLightness - targetLightness)
        better == ImprovesBest(diff, st.bestDiff)
        exit == BelowPrecision(diff) \/ NarrowInterval(st.high - st.low)
    IN  [i |-> st.i + 1,
         low |-> IF ~exit /\ currentLightness < targetLightness THEN mid ELSE st.low,
         high |-> IF ~exit /\ ~(currentLightness < targetLightness) THEN mid ELSE st.high,
         bestL |-> IF better THEN mid ELSE st.bestL,
         bestDiff |-> IF better THEN Fin(diff) ELSE st.bestDiff,
         mid |-> mid,
         done |-> exit \/ st.i + 1 >= MAX_ITERATIONS]

\* one iteration of the loop body (lines 206-230)
SearchStep(st, h, s, targetLightness, method) ==
    LET mid == (st.low + st.high) \div 2
        Measured[color \in Seq(STRING)] ==
            SearchUpdate(st, mid, getLightness(color, method), targetLightness)
    IN  Measured[rgbToHex(hslToRGB(h, s, MidLightness(mid)))]

\* the for loop: SearchStep repeated until it breaks or MAX_ITERATIONS
\* iterations are done; n bounds the iterations still allowed, and the run is
\* evaluated in two halves
RECURSIVE RunSearch(_, _, _, _, _, _)
RunSearch(st, n, h, s, targetLightness, method) ==
    IF st.done THEN st
    ELSE IF n <= 1 THEN SearchStep(st, h, s, targetLightness, method)
    ELSE RunSearch(RunSearch(st, n \div 2, h, s, targetLightness, method),
                   n - (n \div 2), h, s, targetLightness, method)

adjustToLightnessByBinarySearch(h, s, targetLightness, method) ==
    LET FinalColor[bestL \in Int] == rgbToHex(hslToRGB(h, s, MidLightness(bestL)))
    IN  FinalColor[RunSearch(SearchStart, MAX_ITERATIONS, h, s,
                             targetLightness, method).bestL]

\* lines 153-163: the method chooses the adjustment
AdjustNormalized(h, s, targetLightness, method) ==
    IF method = "hsl"
        THEN adjustToHSLLightness(h, s, targetLightness)
        ELSE adjustToLightnessByBinarySearch(h, s, targetLightness, method)

\* h is a number that may be non-finite; s and targetLightness are finite
adjustToLightness(hNum, s0, targetLightness, method) ==
    IF isFinite(hNum)
        THEN AdjustNormalized(Mod360(hNum.v), Max(0, Min(100 * LU, s0)),
                              targetLightness, method)
        ELSE AdjustNormalized(0, Max(0, Min(100 * LU, s0)), targetLightness, method)

-----------------------------------------------------------------------------
(* hueShift.ts *)

MAX_HUE_SHIFT == 30

\* Math.cos of whole degrees 0..90, times 10^6
CosTable == <<
    1000000, 999848, 999391, 998630, 997564, 996195, 994522, 992546, 990268, 987688,
    984808, 981627, 978148, 974370, 970296, 965926, 961262, 956305, 951057, 945519,
    939693, 933580, 927184, 920505, 913545, 906308, 898794, 891007, 882948, 874620,
    866025, 857167, 848048, 838671, 829038, 819152, 809017, 798636, 788011, 777146,
    766044, 754710, 743145, 731354, 719340, 707107, 694658, 681998, 669131, 656059,
    642788, 629320, 615661, 601815, 587785, 573576, 559193, 544639, 529919, 515038,
    500000, 484810, 469472, 453990, 438371, 422618, 406737, 390731, 374607, 358368,
    342020, 325568, 309017, 292372, 275637, 258819, 241922, 224951, 207912, 190809,
    173648, 156434, 139173, 121869, 104528, 87156, 69756, 52336, 34899, 17452,
    0>>

\* cos of an angle in [0, 90] degrees (1/LU units), times 10^6, interpolated
\* linearly between whole degrees; LU = 1716 * 1785
CosQuadrant(a) ==
    LET idx == a \div LU
        frac == a % LU
    IN  IF idx >= 90 THEN 0
        ELSE CosTable[idx + 1]
                - MulDivBy(CosTable[idx + 1] - CosTable[idx + 2], frac, 1716, 1785)

\* Math.cos(h * PI / 180) * 10^6 for h in [0, 360) degrees
Cos(h) ==
    LET a == IF h <= 180 * LU THEN h ELSE 360 * LU - h
    IN  IF a <= 90 * LU THEN CosQuadrant(a) ELSE 0 - CosQuadrant(180 * LU - a)

\* the two while loops; they never end on +/-Infinity nor on a number that
\* hue += 360 and hue -= 360 leave as it is, and NaN passes through
Diverges == [kind |-> "loop", v |-> 0]
normalizeHue(hue) ==
    CASE hue.kind = "num" -> Fin(Mod360(hue.v))
      [] hue.kind \in {"inf", "huge"} -> Diverges
      [] OTHER -> hue

\* in units of 10^-6, for a hue in [0, 360)
calculateHueIntensityByHue(h) ==
    \* temperatureDirection * perceptualSensitivity
    MulDivSignedBy(Cos(h),
                   300000 + (1000000 + Cos(Mod360(h - 60 * LU + 360 * LU))) \div 4,
                   1000, 1000)

SetMax(S) == CHOOSE x \in S : \A y \in S : y <= x
SetMin(S) == CHOOSE x \in S : \A y \in S : y >= x

\* in units of 10^-6; 0 / 0 is NaN, x / 0 is +/-Infinity, which the clamp
\* turns into +/-1
ClampedRatio(lightnessDiff, actualRange) ==
    IF actualRange = 0
        THEN (IF lightnessDiff = 0 THEN NaN
              ELSE IF lightnessDiff > 0 THEN Fin(1000000) ELSE Fin(0 - 1000000))
        ELSE Fin(Max(0 - 1000000,
                     Min(MulDivSigned(lightnessDiff, 1000000, actualRange), 1000000)))

ValuesOf(adjustedLightnessScale) ==
    {adjustedLightnessScale[lv] : lv \in DOMAIN adjustedLightnessScale}

calculateHueIntensityByLightness(lightnessDiff, adjustedLightnessScale) ==
    ClampedRatio(lightnessDiff,
                 SetMax(ValuesOf(adjustedLightnessScale))
                    - SetMin(ValuesOf(adjustedLightnessScale)))

\* line 46-48
ApplyMode(hueShift, hueShiftMode) ==
    IF hueShiftMode = "unnatural" THEN 0 - hueShift ELSE hueShift

\* a * b / 10^6 for a, b of either sign, rounded towards zero
SignedProduct(a, b) ==
    IF b < 0 THEN 0 - MulDivSignedBy(a, 0 - b, 1000, 1000)
             ELSE MulDivSignedBy(a, b, 1000, 1000)

\* lines 43-51, for a finite baseHue
ShiftedHue(baseHue, hueBasedIntensity, lightnessBasedIntensity, hueShiftMode) ==
    IF ~isFinite(lightnessBasedIntensity) THEN NaN
    ELSE normalizeHue(Fin(baseHue.v
            + ApplyMode(MulDivSignedBy(SignedProduct(hueBasedIntensity,
                                                     lightnessBasedIntensity.v),
                                       MAX_HUE_SHIFT * LU, 1000, 1000),
                        hueShiftMode)))

\* the mutant normalizes the hue in fixed mode
calculateHueShift_fixedNormalized(baseHue, baseLightness, targetLightness, adjustedLightnessScale, hueShiftMode) ==
    IF hueShiftMode = "fixed" THEN normalizeHue(baseHue)
    ELSE IF ~isFinite(baseHue) THEN normalizeHue(baseHue)
    ELSE ShiftedHue(baseHue, calculateHueIntensityByHue(Mod360(baseHue.v)),
                    calculateHueIntensityByLightness(targetLightness - baseLightness,
                                                     adjustedLightnessScale),
                    hueShiftMode)
\* baseHue is a number that may be non-finite; the result is one too
calculateHueShift(baseHue, baseLightness, targetLightness, adjustedLightnessScale, hueShiftMode) ==
    IF hueShiftMode = "fixed" THEN baseHue
    ELSE IF ~isFinite(baseHue) THEN normalizeHue(baseHue)
    ELSE ShiftedHue(baseHue, calculateHueIntensityByHue(Mod360(baseHue.v)),
                    calculateHueIntensityByLightness(targetLightness - baseLightness,
                                                     adjustedLightnessScale),
                    hueShiftMode)

-----------------------------------------------------------------------------
(* transparentColor.ts: the transparent colours *)

\* Number.prototype.toFixed(3) of an alpha in 1/AU units
\* the decimal notation of milli thousandths
Thousandths(milli) ==
    ToDigits(milli \div 1000) \o <<".">>
        \o <<HexDigits[((milli % 1000) \div 100) + 1],
             HexDigits[((milli \div 10) % 10) + 1],
             HexDigits[(milli % 10) + 1]>>

\* AU = 3570 * 4290
toFixed3(a) == Thousandths(MulDivRoundBy(a, 1000, 3570, 4290))

\* `rgba(${r}, ${g}, ${b}, ${a})`
Rgba(r, g, b, a) ==
    <<"r", "g", "b", "a", "(">> \o ToDigits(r) \o <<",", " ">> \o ToDigits(g) \o <<",", " ">>
        \o ToDigits(b) \o <<",", " ">> \o a \o <<")">>

\* the mutant cuts the fraction off (Math.floor) instead of rounding
clampRGBValue_floor(n, d) ==
    IF n <= 0 THEN 0 ELSE Max(0, Min(255, n \div d))
\* Math.max(0, Math.min(255, Math.round(value))) of value = n / d, d > 0
clampRGBValue(n, d) ==
    IF n <= 0 THEN 0 ELSE Max(0, Min(255, (2 * n + d) \div (2 * d)))

\* (target - bg * (1 - fixedAlpha)) / fixedAlpha as the fraction
\* (target * den - bg * (den - num)) / num, with fixedAlpha = num / den
\* in lowest terms
\* the mutant weighs the background with alpha instead of 1 - alpha
TransparentChannel_alphaWeight(target, bg, num, den) ==
    clampRGBValue(target * den - bg * num, num)
TransparentChannel(target, bg, num, den) ==
    clampRGBValue(target * den - bg * (den - num), num)

\* hexToRGB neither throws nor returns NaN, so the two error returns of
\* lines 144-164 are never taken
\* lines 176-188, with fixedAlpha = num / den > 0 in lowest terms
TransparentOver(target, bg, num, den, fixedAlpha) ==
    Rgba(TransparentChannel(target.r, bg.r, num, den),
         TransparentChannel(target.g, bg.g, num, den),
         TransparentChannel(target.b, bg.b, num, den),
         toFixed3(fixedAlpha))

\* lines 169-188
TransparentOfRGB(target, bg, fixedAlpha) ==
    IF fixedAlpha = 0
        THEN Rgba(bg.r, bg.g, bg.b, <<"0", ".", "0", "0", "0">>)
        ELSE TransparentOver(target, bg, fixedAlpha \div GCD(fixedAlpha, AU),
                             AU \div GCD(fixedAlpha, AU), fixedAlpha)

calculateTransparentColor(targetSolidColor, backgroundColor, fixedAlpha) ==
    TransparentOfRGB(hexToRGB(targetSolidColor), hexToRGB(backgroundColor), fixedAlpha)

-----------------------------------------------------------------------------
(* palette.ts *)

\* A colour configuration is a record; an option that is not given is "" (a
\* string), << >> (a colour) or 0 (a level), which are the falsy values the
\* code replaces by its defaults
DEFAULT_LIGHTNESS_METHOD == "hybrid"
DEFAULT_HUE_SHIFT_MODE == "natural"
DEFAULT_BG_LIGHT == <<"#", "f", "f", "f", "f", "f", "f">>
DEFAULT_BG_DARK == <<"#", "0", "0", "0", "0", "0", "0">>
DEFAULT_ORIGIN_LEVEL == 500

\* `--${prefix}-${name}`
Key(prefix, name) == <<"-", "-">> \o prefix \o <<"-">> \o name
LevelKey(prefix, lv) == Key(prefix, ToDigits(lv))
TransparentKey(prefix, lv) == Key(prefix, ToDigits(lv) \o <<"-", "t", "r", "a", "n", "s", "p", "a", "r", "e", "n", "t">>)
\* the mutant leaves the prefix out of the reference
VarRef_noPrefix(prefix, lv) == <<"v", "a", "r", "(", "-", "-">> \o ToDigits(lv) \o <<")">>
\* `var(--${prefix}-${lv})`
VarRef(prefix, lv) == <<"v", "a", "r", "(">> \o LevelKey(prefix, lv) \o <<")">>

ColorName == <<"c", "o", "l", "o", "r">>
TextColorName == <<"t", "e", "x", "t", "-", "c", "o", "l", "o", "r">>

\* a palette is a function from keys to values; a later assignment to a key
\* replaces the earlier one
EmptyPalette == << >>
Assign(pal, key, value) == (key :> value) @@ pal
Has(pal, key) == key \in DOMAIN pal /\ Len(pal[key]) > 0

\* lines 44-75
NormalizeConfig(colorConfig) ==
    [color |-> rgbToHex(hexToRGB(ColorText(colorConfig))),
     prefix |-> colorConfig.prefix,
     lightnessMethod |-> IF colorConfig.lightnessMethod = ""
                            THEN DEFAULT_LIGHTNESS_METHOD
                            ELSE colorConfig.lightnessMethod,
     hueShiftMode |-> IF colorConfig.hueShiftMode = ""
                         THEN DEFAULT_HUE_SHIFT_MODE ELSE colorConfig.hueShiftMode,
     includeTransparent |-> colorConfig.includeTransparent,
     bgColorLight |-> IF Len(colorConfig.bgColorLight) = 0
                         THEN DEFAULT_BG_LIGHT ELSE colorConfig.bgColorLight,
     bgColorDark |-> IF Len(colorConfig.bgColorDark) = 0
                        THEN DEFAULT_BG_DARK ELSE colorConfig.bgColorDark,
     transparentOriginLevel |-> IF colorConfig.transparentOriginLevel = 0
                                   THEN DEFAULT_ORIGIN_LEVEL
                                   ELSE colorConfig.transparentOriginLevel]

\* the colour generated for a level other than the closest one (lines 144-161)
GeneratedColor(colorConfig, inputHSL, originalLightness, targetLightness, adjustedLightnessScale) ==
    adjustToLightness(
        calculateHueShift(Fin(inputHSL.h), originalLightness, targetLightness,
                          adjustedLightnessScale, colorConfig.hueShiftMode),
        inputHSL.s, targetLightness, colorConfig.lightnessMethod)

\* the colour stored at the closest level (line 142)
ClosestLevelColor_generated(colorConfig, generated) == generated
ClosestLevelColor(colorConfig, generated) == colorConfig.color

\* the colour stored at level lv (lines 141-160)
LevelColor(colorConfig, lv, closest, generated) ==
    IF lv = closest THEN ClosestLevelColor(colorConfig, generated) ELSE generated

generateOriginalPalette(colorConfig, inputHSL, closest, adjustedLightnessScale) ==
    LET keys == {LevelKey(colorConfig.prefix, lv) : lv \in DOMAIN adjustedLightnessScale}
        LevelOf(key) == CHOOSE lv \in DOMAIN adjustedLightnessScale :
                            LevelKey(colorConfig.prefix, lv) = key
    IN  [key \in keys |->
            LevelColor(colorConfig, LevelOf(key), closest,
                       GeneratedColor(colorConfig, inputHSL,
                                      adjustedLightnessScale[closest],
                                      adjustedLightnessScale[LevelOf(key)],
                                      adjustedLightnessScale))]

\* SCALE_LEVELS.indexOf, counted from 0
indexOf(lv) ==
    IF lv \in Levels THEN (CHOOSE i \in 1..Len(SCALE_LEVELS) : SCALE_LEVELS[i] = lv) - 1
                     ELSE 0 - 1

variations ==
    <<[name |-> <<"l", "i", "g", "h", "t", "e", "r">>, offset |-> 0 - 2],
      [name |-> <<"l", "i", "g", "h", "t">>, offset |-> 0 - 1],
      [name |-> <<"d", "a", "r", "k">>, offset |-> 1],
      [name |-> <<"d", "a", "r", "k", "e", "r">>, offset |-> 2]>>

\* lines 191-194, as an index counted from 0
targetIndex_halved(currentIndex, offset) ==
    Max(0, Min(Len(SCALE_LEVELS) - 1, currentIndex + (offset \div 2)))
targetIndex_mirrored(currentIndex, offset) ==
    Max(0, Min(Len(SCALE_LEVELS) - 1, currentIndex - offset))
targetIndex(currentIndex, offset) ==
    Max(0, Min(Len(SCALE_LEVELS) - 1, currentIndex + offset))

setVariationColors(colorConfig, closest, pal) ==
    LET currentIndex == indexOf(closest)
        names == {Key(colorConfig.prefix, variations[i].name) : i \in 1..Len(variations)}
        OffsetOf(key) == variations[CHOOSE i \in 1..Len(variations) :
                            Key(colorConfig.prefix, variations[i].name) = key].offset
        aliases == [key \in names |->
                        VarRef(colorConfig.prefix,
                               SCALE_LEVELS[targetIndex(currentIndex, OffsetOf(key)) + 1])]
    IN  aliases @@ Assign(pal, Key(colorConfig.prefix, ColorName),
                          VarRef(colorConfig.prefix, closest))

\* perceptualLightness <= 70 (line 240)
DarkEnoughForText(perceptualLightness) == perceptualLightness <= 70 * LU

\* the perceptual lightness of the colour stored at a level (lines 234-237
\* and 250-253)
LevelPerceptualLightness(colorConfig, pal, lv) ==
    getLightness(pal[LevelKey(colorConfig.prefix, lv)], "perceptual")

\* lines 229-245: the levels that have a colour of perceptual lightness 70 or
\* below; selectedLevel is the smallest of them
TextCandidates(colorConfig, pal) ==
    {lv \in Levels :
        /\ Has(pal, LevelKey(colorConfig.prefix, lv))
        /\ DarkEnoughForText(LevelPerceptualLightness(colorConfig, pal, lv))}

\* lines 248-281: the level the text colour refers to
TextLevel(colorConfig, pal, inputPerceptualLightness, inputClosestLevel, candidates) ==
    IF candidates = {} THEN inputClosestLevel
    ELSE IF inputPerceptualLightness <
                LevelPerceptualLightness(colorConfig, pal, SetMin(candidates))
        THEN inputClosestLevel
        ELSE SetMin(candidates)

\* lines 218-223, and findClosestLevel of lines 259-262 and 274-277
TextLevelOfInput(colorConfig, pal, inputPerceptualLightness) ==
    TextLevel(colorConfig, pal, inputPerceptualLightness,
              findClosestLevel(Fin(inputPerceptualLightness),
                               colorConfig.lightnessMethod),
              TextCandidates(colorConfig, pal))

setTextColor(colorConfig, inputColor, pal) ==
    Assign(pal, Key(colorConfig.prefix, TextColorName),
           VarRef(colorConfig.prefix,
                  TextLevelOfInput(colorConfig, pal,
                                   getLightness(rgbToHex(hexToRGB(inputColor)),
                                                "perceptual"))))

\* transparentColor.ts, lines 58-61: the background a level is inverted
\* against; the mutant takes the dark background for the light levels
BackgroundOf_swapped(colorConfig, lv) ==
    IF lv <= colorConfig.transparentOriginLevel THEN colorConfig.bgColorDark
                                                ELSE colorConfig.bgColorLight
BackgroundOf(colorConfig, lv) ==
    IF lv <= colorConfig.transparentOriginLevel THEN colorConfig.bgColorLight
                                                ELSE colorConfig.bgColorDark

\* lines 39 and 52-70: the transparent colour of a level that is not skipped
TransparentEntry(colorConfig, pal, lv) ==
    calculateTransparentColor(
        Trim(pal[LevelKey(colorConfig.prefix, lv)]),
        BackgroundOf(colorConfig, lv),
        getAlphaForLevel(lv, colorConfig.transparentOriginLevel))

Undefined == <<"u", "n", "d", "e", "f", "i", "n", "e", "d">>

\* lines 34-49 and 63: the level has a solid colour that is not blank and a
\* background; the mutant takes every level that has an entry
HasTransparent_present(colorConfig, pal, lv) ==
    /\ LevelKey(colorConfig.prefix, lv) \in DOMAIN pal
    /\ Len(BackgroundOf(colorConfig, lv)) > 0
HasTransparent(colorConfig, pal, lv) ==
    /\ Has(pal, LevelKey(colorConfig.prefix, lv))
    /\ Len(Trim(pal[LevelKey(colorConfig.prefix, lv)])) > 0
    /\ Trim(pal[LevelKey(colorConfig.prefix, lv)]) # Undefined
    /\ Len(BackgroundOf(colorConfig, lv)) > 0

\* lines 23-74; a parameter that is not given is 0 (the level) or << >> (a
\* colour)
setTransparentPalette(colorConfig, pal) ==
    IF colorConfig.transparentOriginLevel = 0 THEN pal
    ELSE LET done == {lv \in Levels : HasTransparent(colorConfig, pal, lv)}
             keys == {TransparentKey(colorConfig.prefix, lv) : lv \in done}
             LevelOf(key) == CHOOSE lv \in done :
                                TransparentKey(colorConfig.prefix, lv) = key
         IN  [key \in keys |-> TransparentEntry(colorConfig, pal, LevelOf(key))] @@ pal

\* lines 109-116
PaletteWithTransparent(colorConfig, normalizedConfig, pal) ==
    IF colorConfig.includeTransparent
        THEN setTransparentPalette(normalizedConfig, pal)
        ELSE pal

\* lines 97-116, for the palette of the eleven levels; the palette is
\* evaluated before the statements that read it
PaletteOfOriginal(colorConfig, normalizedConfig, closest, originalPalette) ==
    LET Completed[pal \in {originalPalette}] ==
            PaletteWithTransparent(colorConfig, normalizedConfig,
                setTextColor(normalizedConfig, normalizedConfig.color,
                    setVariationColors(normalizedConfig, closest, pal)))
    IN  Completed[originalPalette]

\* lines 90-116, for the lightness scale
PaletteOfScale(colorConfig, normalizedConfig, inputHSL, closest, evenScale) ==
    LET Generated[adjustedLightnessScale \in {evenScale}] ==
            PaletteOfOriginal(colorConfig, normalizedConfig, closest,
                generateOriginalPalette(normalizedConfig, inputHSL, closest,
                                        adjustedLightnessScale))
    IN  Generated[evenScale]

\* lines 85-116, for the closest level of the input lightness
PaletteAtLevel(colorConfig, normalizedConfig, inputHSL, inLightness, closest) ==
    PaletteOfScale(colorConfig, normalizedConfig, inputHSL, closest,
                   calculateEvenScale(Fin(inLightness), closest))

\* lines 80-116, for the lightness of the normalized colour
PaletteOfLightness(colorConfig, normalizedConfig, inputHSL, inLightness) ==
    LET AtLevel[closest \in Levels] ==
            PaletteAtLevel(colorConfig, normalizedConfig, inputHSL, inLightness,
                           closest)
    IN  AtLevel[findClosestLevel(Fin(inLightness),
                                 normalizedConfig.lightnessMethod)]

\* lines 75-116, for the normalized configuration
PaletteOfNormalized(colorConfig, normalizedConfig, inputHSL) ==
    LET OfLightness[inLightness \in Int] ==
            PaletteOfLightness(colorConfig, normalizedConfig, inputHSL, inLightness)
    IN  OfLightness[getLightness(normalizedConfig.color,
                                 normalizedConfig.lightnessMethod)]

\* palette.ts, lines 44-117: one configuration
generateSinglePalette(colorConfig) ==
    PaletteOfNormalized(colorConfig, NormalizeConfig(colorConfig),
                        rgbToHSL(hexToRGB(ColorText(colorConfig))))

\* lines 33-42: Object.assign of the palettes of the configurations, in order
RECURSIVE AssignAll(_, _)
RECURSIVE AssignAll_keepFirst(_, _)
\* the mutant keeps the entry a key already has
AssignAll_keepFirst(configs, allPalette) ==
    IF Len(configs) = 0 THEN allPalette
    ELSE AssignAll_keepFirst(Tail(configs),
                             allPalette @@ generateSinglePalette(Head(configs)))
AssignAll(configs, allPalette) ==
    IF Len(configs) = 0 THEN allPalette
    ELSE AssignAll(Tail(configs), generateSinglePalette(Head(configs)) @@ allPalette)

generateColorPalette(in) ==
    IF in.isArray THEN AssignAll(in.configs, EmptyPalette)
                  ELSE generateSinglePalette(in.configs[1])

-----------------------------------------------------------------------------
(* Inputs of the scale functions *)

GridDen == 2          \* input lightness runs over multiples of 1/GridDen
InputMargin == 8      \* ... from -InputMargin to 100 + InputMargin

\* the lightness half-way between the references of two neighbouring levels:
\* the inputs on which findClosestLevel has to break a tie
TieInputs ==
    {(LevelLightness(SCALE_LEVELS[i], m) + LevelLightness(SCALE_LEVELS[i + 1], m)) \div 2 :
        i \in 1..(Len(SCALE_LEVELS) - 1), m \in LightnessMethods}

LightnessInputs ==
    {Fin((k * LU) \div GridDen) :
        k \in (0 - InputMargin * GridDen)..((100 + InputMargin) * GridDen)}
    \cup {Fin(x) : x \in TieInputs}
    \cup {NaN, PosInf, NegInf}

\* "other" stands for a method string outside the enumeration
MethodInputs == LightnessMethods \cup {"other"}

\* the 11 levels and values that are none of them
BaseLevelInputs == Levels \cup {0, 450, 1000}

ScaleIdle ==
    /\ inputLightness = NaN
    /\ lightnessMethod = "none"
    /\ baseLevel = 0
    /\ closestLevel = 0
    /\ scale = << >>

AlphaIdle ==
    /\ level = 0
    /\ transparentOriginLevel = 0
    /\ alpha = 0 - 1

PaletteIdle ==
    /\ input = [isArray |-> TRUE, configs |-> << >>]
    /\ palette = EmptyPalette
    /\ returned = TRUE

TransparentIdle ==
    /\ targetSolid = << >>
    /\ background = << >>
    /\ compositeAlpha = 0 - 1
    /\ rgbaString = << >>

AdjustIdle ==
    adjustCall = << >> /\ search = SearchStart /\ tried = << >> /\ adjusted = << >>

HueIdle == hueCall = << >> /\ hueState = "idle" /\ newHue = NaN

TokenIdle ==
    /\ tokenConfig = << >>
    /\ tokenPalette = << >>
    /\ tokensSet = TRUE

-----------------------------------------------------------------------------
(* SpecScale: findClosestLevel and calculateEvenScale applied to an input *)

InitScale ==
    /\ inputLightness \in LightnessInputs
    /\ lightnessMethod \in MethodInputs
    /\ baseLevel \in BaseLevelInputs
    /\ closestLevel = 0
    /\ scale = << >>
    /\ AlphaIdle
    /\ PaletteIdle
    /\ TransparentIdle
    /\ TokenIdle
    /\ HueIdle
    /\ AdjustIdle

FindClosestLevel ==
    /\ lightnessMethod # "none"
    /\ closestLevel = 0
    /\ closestLevel' = findClosestLevel(inputLightness, lightnessMethod)
    /\ UNCHANGED <<inputLightness, lightnessMethod, baseLevel, scale, alphaVars,
                   paletteVars, transparentVars, tokenVars, hueVars, adjustVars>>

CalculateEvenScale ==
    /\ lightnessMethod # "none"
    /\ scale = << >>
    /\ scale' = calculateEvenScale(inputLightness, baseLevel)
    /\ UNCHANGED <<inputLightness, lightnessMethod, baseLevel, closestLevel, alphaVars,
                   paletteVars, transparentVars, tokenVars, hueVars, adjustVars>>

NextScale == FindClosestLevel \/ CalculateEvenScale

SpecScale == InitScale /\ [][NextScale]_vars

-----------------------------------------------------------------------------
(* SpecAlpha: getAlphaForLevel applied to a level and an origin level *)

InitAlpha ==
    /\ level \in Levels
    /\ transparentOriginLevel \in Levels
    /\ alpha = 0 - 1
    /\ ScaleIdle
    /\ PaletteIdle
    /\ TransparentIdle
    /\ TokenIdle
    /\ HueIdle
    /\ AdjustIdle

GetAlphaForLevel ==
    /\ level # 0
    /\ alpha = 0 - 1
    /\ alpha' = getAlphaForLevel(level, transparentOriginLevel)
    /\ UNCHANGED <<level, transparentOriginLevel, scaleVars, paletteVars, transparentVars, tokenVars, hueVars, adjustVars>>

NextAlpha == GetAlphaForLevel

SpecAlpha == InitAlpha /\ [][NextAlpha]_vars

-----------------------------------------------------------------------------
(* SpecPalette: generateColorPalette applied to a configuration or an array *)

MaxConfigs == 2       \* longest array of configurations

Config(color, prefix, method, mode, transparent, light, dark, origin) ==
    [color |-> color, colorType |-> "string", prefix |-> prefix,
     includeTextColors |-> FALSE, lightnessMethod |-> method,
     hueShiftMode |-> mode, includeTransparent |-> transparent,
     bgColorLight |-> light, bgColorDark |-> dark,
     transparentOriginLevel |-> origin]

\* well-formed seeds in several spellings (upper case, no "#", surrounding
\* blanks), seeds at both ends of the scale and one step inside, a grey
\* between the levels 50 and 100, and malformed ones
Seeds ==
    {<<"#", "3", "b", "8", "2", "f", "6">>, <<"#", "f", "f", "f", "f", "f", "f">>,
     <<"#", "0", "0", "0", "0", "0", "0">>, <<"#", "F", "F", "0", "0", "0", "0">>,
     <<"3", "B", "8", "2", "F", "6">>, <<" ", "#", "2", "2", "c", "5", "5", "e", " ">>,
     <<>>, <<"#", "f", "f", "f">>,
     <<"#", "g", "g", "g", "g", "g", "g">>, <<"#", "e", "5", "e", "7", "e", "b">>,
     <<"#", "3", "0", "3", "0", "3", "0">>, <<"#", "f", "d", "e", "0", "4", "7">>,
     <<"#", "e", "f", "e", "f", "e", "f">>}
\* seeds that are numbers, not strings: one whose decimal digits read as a
\* colour, one whose digits do not
NumberSeeds == {123456, 123}
PrefixP == <<"p">>
PrefixQ == <<"q">>
\* "" is an option that is not given, "other" a string outside the enumeration
MethodOptions == LightnessMethods \cup {"", "other"}
ModeOptions == {"", "fixed", "unnatural"}
CustomBgLight == <<"#", "f", "0", "f", "0", "e", "0">>
CustomBgDark == <<"#", "1", "0", "1", "8", "2", "8">>
OriginOptions == {0, 50, 300, 500, 950}

SolidConfigs ==
    {Config(c, PrefixP, m, h, FALSE, << >>, << >>, 0) :
        c \in Seeds, m \in MethodOptions, h \in ModeOptions}
TransparentConfigs ==
    {Config(c, PrefixP, "", "natural", TRUE, bg[1], bg[2], o) :
        c \in Seeds, bg \in {<<<< >>, << >>>>, <<CustomBgLight, CustomBgDark>>},
        o \in OriginOptions}
NumberConfigs ==
    {[Config(n, PrefixP, "", h, FALSE, << >>, << >>, 0) EXCEPT !.colorType = "number"] :
        n \in NumberSeeds, h \in ModeOptions}
\* configurations that ask for the text colours (types.ts, line 170)
TextColorConfigs ==
    {[Config(c, PrefixP, "", h, t, << >>, << >>, 0) EXCEPT !.includeTextColors = TRUE] :
        c \in {<<"#", "3", "b", "8", "2", "f", "6">>, <<"#", "f", "f", "f", "f", "f", "f">>,
               <<"#", "0", "0", "0", "0", "0", "0">>},
        h \in ModeOptions, t \in BOOLEAN}
ArrayConfigs ==
    {Config(<<"#", "3", "b", "8", "2", "f", "6">>, PrefixP, "", "", FALSE, << >>, << >>, 0),
     Config(<<"#", "F", "F", "0", "0", "0", "0">>, PrefixQ, "hsl", "fixed", FALSE, << >>, << >>, 0),
     Config(<<"#", "f", "f", "f", "f", "f", "f">>, PrefixP, "", "", TRUE, << >>, << >>, 0)}
ArrayInputs ==
    UNION {[1..n -> ArrayConfigs] : n \in 0..MaxConfigs}

Inputs ==
    {[isArray |-> FALSE, configs |-> <<c>>] :
        c \in SolidConfigs \cup TransparentConfigs \cup NumberConfigs
                \cup TextColorConfigs}
    \cup {[isArray |-> TRUE, configs |-> a] : a \in ArrayInputs}

InitPalette ==
    /\ input \in Inputs
    /\ palette = EmptyPalette
    /\ returned = FALSE
    /\ ScaleIdle
    /\ AlphaIdle
    /\ TransparentIdle
    /\ TokenIdle
    /\ HueIdle
    /\ AdjustIdle

GenerateColorPalette ==
    /\ ~returned
    /\ palette' = generateColorPalette(input)
    /\ returned' = TRUE
    /\ UNCHANGED <<input, scaleVars, alphaVars, transparentVars, tokenVars, hueVars, adjustVars>>

NextPalette == GenerateColorPalette

SpecPalette == InitPalette /\ [][NextPalette]_vars

-----------------------------------------------------------------------------
(* SpecTransparent: calculateTransparentColor applied to two colours and an
   alpha *)

ChannelStep == 5      \* channel values run over the multiples of ChannelStep
AlphaGrid == 20       \* alphas run over the multiples of 1/AlphaGrid

ChannelValues == {v \in 0..255 : v % ChannelStep = 0} \cup {1, 254, 255}

\* strings that are no colour: empty, too short, no hexadecimal digits, a word
MalformedColors ==
    {<< >>, <<"#", "f", "f", "f">>, <<"#", "g", "g", "g", "g", "g", "g">>,
     <<"i", "n", "v", "a", "l", "i", "d">>}

\* colours whose three channels take every value of ChannelValues
TargetInputs ==
    {rgbToHex(RGB(v, 255 - v, (37 * v) % 256)) : v \in ChannelValues}
    \cup MalformedColors

MidGray == <<"#", "8", "0", "8", "0", "8", "0">>

BackgroundInputs ==
    {DEFAULT_BG_LIGHT, DEFAULT_BG_DARK, CustomBgLight, CustomBgDark, MidGray}
    \cup MalformedColors

\* the alphas getAlphaForLevel assigns, and a grid from 0 to 1
LevelAlphas == {getAlphaForLevel(lv, o) : lv \in Levels, o \in Levels}
AlphaInputs == LevelAlphas \cup {(k * AU) \div AlphaGrid : k \in 0..AlphaGrid}

InitTransparent ==
    /\ targetSolid \in TargetInputs
    /\ background \in BackgroundInputs
    /\ compositeAlpha \in AlphaInputs
    /\ rgbaString = << >>
    /\ ScaleIdle
    /\ AlphaIdle
    /\ PaletteIdle
    /\ TokenIdle
    /\ HueIdle
    /\ AdjustIdle

CalculateTransparentColor ==
    /\ compositeAlpha >= 0
    /\ rgbaString = << >>
    /\ rgbaString' = calculateTransparentColor(targetSolid, background, compositeAlpha)
    /\ UNCHANGED <<targetSolid, background, compositeAlpha, scaleVars, alphaVars,
                   paletteVars, tokenVars, hueVars, adjustVars>>

NextTransparent == CalculateTransparentColor

SpecTransparent == InitTransparent /\ [][NextTransparent]_vars

-----------------------------------------------------------------------------
(* SpecTokens: generateColorPalette applied to a configuration, and
   setTransparentPalette applied to a configuration and a palette *)

\* a solid colour for every level, lighter to darker
BaseSolid(lv) == rgbToHex(RGB(255 - lv \div 4, 240 - lv \div 5, 250 - lv \div 8))
BasePalette == [key \in {LevelKey(PrefixP, lv) : lv \in Levels} |->
                   BaseSolid(CHOOSE lv \in Levels : LevelKey(PrefixP, lv) = key)]

\* the palette without the entries of some levels
Without(pal, lvs) ==
    [key \in DOMAIN pal \ {LevelKey(PrefixP, lv) : lv \in lvs} |-> pal[key]]

\* entries that are no colour: empty, a word, no hexadecimal digits, the
\* string "undefined", blanks
InvalidEntries ==
    (LevelKey(PrefixP, 50) :> << >>)
    @@ (LevelKey(PrefixP, 100) :> <<"i", "n", "v", "a", "l", "i", "d">>)
    @@ (LevelKey(PrefixP, 200) :> <<"#", "g", "g", "g", "g", "g", "g">>)
    @@ (LevelKey(PrefixP, 300) :> Undefined)
    @@ (LevelKey(PrefixP, 500) :> <<" ", " ", " ">>)
    @@ (LevelKey(PrefixP, 900) :> <<" ", "#", "1", "e", "3", "a", "8", "a", " ">>)

TokenPalettes ==
    {BasePalette, Without(BasePalette, {300, 700}), InvalidEntries @@ BasePalette,
     InvalidEntries, EmptyPalette}
    \cup {Without(BasePalette, Levels \ {lv}) : lv \in Levels}

\* transparency parameters that are given or not
TokenConfigs ==
    {Config(<<"#", "3", "b", "8", "2", "f", "6">>, PrefixP, "hybrid", "natural", TRUE,
            light, dark, o) :
        light \in {DEFAULT_BG_LIGHT, CustomBgLight, << >>},
        dark \in {DEFAULT_BG_DARK, CustomBgDark, << >>},
        o \in OriginOptions}

SingleInputs ==
    {[isArray |-> FALSE, configs |-> <<c>>] : c \in SolidConfigs \cup TransparentConfigs}

InitGenerate ==
    /\ input \in SingleInputs
    /\ palette = EmptyPalette
    /\ returned = FALSE
    /\ ScaleIdle
    /\ AlphaIdle
    /\ TransparentIdle
    /\ TokenIdle
    /\ HueIdle
    /\ AdjustIdle

InitSetTransparent ==
    /\ tokenConfig \in TokenConfigs
    /\ tokenPalette \in TokenPalettes
    /\ tokensSet = FALSE
    /\ ScaleIdle
    /\ AlphaIdle
    /\ PaletteIdle
    /\ TransparentIdle
    /\ HueIdle
    /\ AdjustIdle

SetTransparentPalette ==
    /\ ~tokensSet
    /\ tokenPalette' = setTransparentPalette(tokenConfig, tokenPalette)
    /\ tokensSet' = TRUE
    /\ UNCHANGED <<tokenConfig, scaleVars, alphaVars, paletteVars, transparentVars, hueVars, adjustVars>>

InitTokens == InitGenerate \/ InitSetTransparent

NextTokens == GenerateColorPalette \/ SetTransparentPalette

SpecTokens == InitTokens /\ [][NextTokens]_vars

-----------------------------------------------------------------------------
(* SpecHue: calculateHueShift applied to a hue, two lightnesses, a scale and
   a mode *)

HueGrid == 12         \* finite hues run over the multiples of 360/HueGrid

\* finite hues from below 0 to above 360, and the non-finite numbers
HueInputs ==
    {Fin(((360 * LU) \div HueGrid) * k) : k \in 0 - 1 .. HueGrid + 1}
    \cup {NaN, PosInf, NegInf}
\* the reference scale, and one whose values are all equal
FlatScale == [lv \in Levels |-> 50 * LU]
ScaleInputs == {[lv \in Levels |-> STANDARD_LIGHTNESS_SCALE[lv] * LU], FlatScale}
HueShiftModes == {"natural", "unnatural", "fixed"}

HueCalls ==
    [baseHue : HueInputs, baseLightness : {50 * LU},
     targetLightness : {20 * LU, 50 * LU, 80 * LU},
     adjustedLightnessScale : ScaleInputs, hueShiftMode : HueShiftModes]

HueResult(call) ==
    calculateHueShift(call.baseHue, call.baseLightness, call.targetLightness,
                      call.adjustedLightnessScale, call.hueShiftMode)

InitHue ==
    /\ hueCall \in HueCalls
    /\ hueState = "called"
    /\ newHue = NaN
    /\ ScaleIdle
    /\ AlphaIdle
    /\ PaletteIdle
    /\ TransparentIdle
    /\ TokenIdle
    /\ AdjustIdle

\* the call returns its result, or stays in a loop of normalizeHue for ever
CalculateHueShift ==
    /\ hueState = "called"
    /\ IF HueResult(hueCall) = Diverges
          THEN hueState' = "looping" /\ newHue' = newHue
          ELSE hueState' = "returned" /\ newHue' = HueResult(hueCall)
    /\ UNCHANGED <<hueCall, scaleVars, alphaVars, paletteVars, transparentVars, tokenVars, adjustVars>>

NextHue == CalculateHueShift

SpecHue == InitHue /\ [][NextHue]_vars

-----------------------------------------------------------------------------
(* SpecNormalize: normalizeHue applied to a finite hue *)

NormalizeGrid == 72   \* hues run over the multiples of 360/NormalizeGrid

\* the period, and the hues the model can hold: the multiples of the grid
\* step from -700 to 700 degrees, and the huge numbers of both signs
Period == 360 * LU
FiniteHues ==
    {Fin((Period \div NormalizeGrid) * k) :
        k \in 0 - ((35 * NormalizeGrid) \div 18) .. (35 * NormalizeGrid) \div 18}
    \cup {Huge, NegHuge}

InitNormalize ==
    /\ hueCall \in [hue : FiniteHues]
    /\ hueState = "called"
    /\ newHue = NaN
    /\ ScaleIdle
    /\ AlphaIdle
    /\ PaletteIdle
    /\ TransparentIdle
    /\ TokenIdle
    /\ AdjustIdle

\* the call returns its result, or stays in one of its loops for ever
NormalizeHue ==
    /\ hueState = "called"
    /\ IF normalizeHue(hueCall.hue) = Diverges
          THEN hueState' = "looping" /\ newHue' = newHue
          ELSE hueState' = "returned" /\ newHue' = normalizeHue(hueCall.hue)
    /\ UNCHANGED <<hueCall, scaleVars, alphaVars, paletteVars, transparentVars,
                   tokenVars, adjustVars>>

NextNormalize == NormalizeHue

SpecNormalize == InitNormalize /\ [][NextNormalize]_vars

-----------------------------------------------------------------------------
(* SpecAdjust: adjustToLightness applied to a hue, a saturation, a target
   lightness and a method; the binary search runs one iteration at a time *)

AdjustHueGrid == 24   \* hues run over the multiples of 360/AdjustHueGrid
SaturationGrid == 4   \* saturations run over the multiples of 100/SaturationGrid
TargetGrid == 20      \* targets run over the multiples of 100/TargetGrid

\* every fourth hue of the grid, so that each sector of the hue circle occurs
AdjustHues == {((360 * LU) \div AdjustHueGrid) * k : k \in {1, 5, 9, 13, 17, 21}}
AdjustSaturations == {((100 * LU) \div SaturationGrid) * k : k \in 0..SaturationGrid}
AdjustTargets == {((100 * LU) \div TargetGrid) * k : k \in 0..TargetGrid}

AdjustCalls ==
    [h : AdjustHues, s : AdjustSaturations, targetLightness : AdjustTargets,
     lightnessMethod : LightnessMethods]

InitAdjust ==
    /\ adjustCall \in AdjustCalls
    /\ search = SearchStart
    /\ tried = << >>
    /\ adjusted = << >>
    /\ ScaleIdle
    /\ AlphaIdle
    /\ PaletteIdle
    /\ TransparentIdle
    /\ TokenIdle
    /\ HueIdle

\* lines 154-155: the method hsl returns the colour of the target lightness
AdjustToHSLLightness ==
    /\ adjustCall.lightnessMethod = "hsl"
    /\ adjusted = << >>
    /\ adjusted' = adjustToHSLLightness(adjustCall.h, adjustCall.s,
                                        adjustCall.targetLightness)
    /\ UNCHANGED <<adjustCall, search, tried, scaleVars, alphaVars, paletteVars,
                   transparentVars, tokenVars, hueVars>>

\* lines 206-230: one iteration of the loop of the binary search
SearchIteration ==
    /\ adjustCall.lightnessMethod # "hsl"
    /\ ~search.done
    /\ search' = SearchStep(search, adjustCall.h, adjustCall.s,
                            adjustCall.targetLightness, adjustCall.lightnessMethod)
    /\ tried' = Append(tried, search'.mid)
    /\ UNCHANGED <<adjustCall, adjusted, scaleVars, alphaVars, paletteVars,
                   transparentVars, tokenVars, hueVars>>

\* lines 233-234: after the loop the colour of bestL is returned
SearchReturn ==
    /\ adjustCall.lightnessMethod # "hsl"
    /\ search.done
    /\ adjusted = << >>
    /\ adjusted' = rgbToHex(hslToRGB(adjustCall.h, adjustCall.s,
                                     MidLightness(search.bestL)))
    /\ UNCHANGED <<adjustCall, search, tried, scaleVars, alphaVars, paletteVars,
                   transparentVars, tokenVars, hueVars>>

NextAdjust == AdjustToHSLLightness \/ SearchIteration \/ SearchReturn

SpecAdjust == InitAdjust /\ [][NextAdjust]_vars

-----------------------------------------------------------------------------
(* Claims about the lightness scale (SpecScale) *)

Rank(lv) == CHOOSE i \in 1..Len(SCALE_LEVELS) : SCALE_LEVELS[i] = lv

\* C2 (scale monotonicity): the scale calculateEvenScale returns never
\* increases from one level to the next darker one, over all 11 levels.
C2_ScaleMonotone ==
    scale # << >> =>
        \A i \in 1..(Len(SCALE_LEVELS) - 1) :
            /\ SCALE_LEVELS[i] \in DOMAIN scale
            /\ SCALE_LEVELS[i + 1] \in DOMAIN scale
            /\ scale[SCALE_LEVELS[i]] >= scale[SCALE_LEVELS[i + 1]]

\* an anchor in the middle with room on both sides: the scale really falls
C2_Witness ==
    /\ scale # << >>
    /\ baseLevel = 500
    /\ inputLightness = Fin(50 * LU)
    /\ scale[50] > scale[400] /\ scale[400] > scale[500]
    /\ scale[500] > scale[600] /\ scale[600] > scale[950]

\* C3 as stated: the value at the anchor level is the input lightness itself.
C3_AnchorIsInput ==
    (scale # << >> /\ isFinite(inputLightness) /\ baseLevel \in Levels) =>
        (baseLevel \in DOMAIN scale /\ scale[baseLevel] = inputLightness.v)

\* C3 (amended): the value at the anchor level is the input lightness clamped
\* into [MIN_LIGHTNESS, MAX_LIGHTNESS]; it is the input itself exactly when
\* the input lies in that range.
C3_AnchorIsClampedInput ==
    (scale # << >> /\ isFinite(inputLightness) /\ baseLevel \in Levels) =>
        /\ baseLevel \in DOMAIN scale
        /\ inputLightness.v > MAX_LIGHTNESS * LU => scale[baseLevel] = MAX_LIGHTNESS * LU
        /\ inputLightness.v < MIN_LIGHTNESS * LU => scale[baseLevel] = MIN_LIGHTNESS * LU
        /\ (/\ inputLightness.v >= MIN_LIGHTNESS * LU
            /\ inputLightness.v <= MAX_LIGHTNESS * LU) => scale[baseLevel] = inputLightness.v

\* a dark seed (lightness 5) anchored at 950: the anchor holds 16, not 5
C3_Witness ==
    /\ scale # << >>
    /\ inputLightness = Fin(5 * LU)
    /\ baseLevel = 950
    /\ scale[950] = MIN_LIGHTNESS * LU

\* C4 (completeness and bounds): the scale has a value for each of the 11
\* levels and no other key, every value lies in [16, 96]; a non-finite input
\* lightness counts as 50 and a base level outside the 11 counts as 500.
C4_ScaleCompleteBounded ==
    scale # << >> =>
        /\ DOMAIN scale = Levels
        /\ \A lv \in DOMAIN scale :
                scale[lv] >= 16 * LU /\ scale[lv] <= 96 * LU
        /\ ~isFinite(inputLightness) =>
                scale[IF baseLevel \in Levels THEN baseLevel ELSE 500] = 50 * LU
        /\ (baseLevel \notin Levels /\ isFinite(inputLightness)) =>
                scale[500] = Max(16 * LU, Min(96 * LU, inputLightness.v))

\* NaN with a base level that is none of the 11
C4_Witness ==
    /\ scale # << >>
    /\ inputLightness = NaN
    /\ baseLevel = 450
    /\ scale[500] = 50 * LU
    /\ scale[50] > scale[500]

\* the reference lightness of a level as the claim states it
\* 96 at level 50 down to 16 at level 950, linear in the level number
C5_Ramp(lv) == (96 * LU) - ((lv - 50) \div 50) * ((80 * LU) \div 18)
C5_Table(lv) ==
    LU * (CASE lv = 50 -> 96 [] lv = 100 -> 92 [] lv = 200 -> 83 [] lv = 300 -> 74
            [] lv = 400 -> 65 [] lv = 500 -> 56 [] lv = 600 -> 47 [] lv = 700 -> 38
            [] lv = 800 -> 29 [] lv = 900 -> 20 [] lv = 950 -> 16)
C5_Reference(lv, method) ==
    CASE method = "perceptual" -> C5_Table(lv)
      [] method \in {"hsl", "average"} -> C5_Ramp(lv)
      [] method = "hybrid" -> (3 * (C5_Table(lv) \div 10)) + (7 * (C5_Ramp(lv) \div 10))
C5_Input == IF isFinite(inputLightness) THEN inputLightness.v ELSE 50 * LU
C5_Dist(lv) == Abs(C5_Input - C5_Reference(lv, lightnessMethod))

\* C5 (closest level): findClosestLevel returns one of the 11 levels, its
\* reference is at minimal distance from the input, and every lower-numbered
\* level is strictly farther (ties go to the lowest level); a non-finite
\* input counts as 50.
C5_ClosestLevel ==
    (closestLevel # 0 /\ lightnessMethod \in LightnessMethods) =>
        /\ closestLevel \in Levels
        /\ \A lv \in Levels : C5_Dist(closestLevel) <= C5_Dist(lv)
        /\ \A lv \in Levels : lv < closestLevel => C5_Dist(lv) > C5_Dist(closestLevel)

\* an exact tie between two levels, resolved to the lower one
C5_Witness ==
    /\ closestLevel # 0
    /\ lightnessMethod = "hybrid"
    /\ isFinite(inputLightness)
    /\ \E lv \in Levels : lv > closestLevel /\ C5_Dist(lv) = C5_Dist(closestLevel)

-----------------------------------------------------------------------------
(* Claims about the alpha of a level (SpecAlpha) *)

-----------------------------------------------------------------------------
(* Claims about the generated palette (SpecPalette) *)

\* the call was made with one configuration and has returned
SingleReturned == returned /\ ~input.isArray
TheConfig == input.configs[1]
\* the seed as hexToRGB reads it
TheSeed == ColorText(TheConfig)
TheMethod ==
    IF TheConfig.lightnessMethod = "" THEN "hybrid" ELSE TheConfig.lightnessMethod

\* the lowercase 6-digit form of a seed: the trimmed seed, "#" put in front
\* when missing, letters in lower case; black when that is not "#" and six
\* hexadecimal digits
LowerCase(ch) ==
    IF \E i \in 1..16 : UpperHexDigits[i] = ch
        THEN HexDigits[CHOOSE i \in 1..16 : UpperHexDigits[i] = ch]
        ELSE ch
NormalForm(color) ==
    LET trimmed == Trim(color)
        hashed == IF Len(trimmed) > 0 /\ trimmed[1] = "#" THEN trimmed
                                                          ELSE <<"#">> \o trimmed
    IN  IF Len(hashed) = 7 /\ hashed[1] = "#"
           /\ \A i \in 2..7 : hashed[i] \in HexChars
            THEN [i \in 1..7 |-> LowerCase(hashed[i])]
            ELSE <<"#", "0", "0", "0", "0", "0", "0">>

\* the anchor: the level findClosestLevel returns for the seed's lightness
Anchor ==
    findClosestLevel(Fin(getLightness(NormalForm(TheSeed), TheMethod)),
                     TheMethod)
\* its position in the level list, counted from 0
AnchorIndex == Rank(Anchor) - 1

PaletteKey(name) == <<"-", "-">> \o TheConfig.prefix \o <<"-">> \o name
Reference(lv) ==
    <<"v", "a", "r", "(">> \o <<"-", "-">> \o TheConfig.prefix \o <<"-">> \o ToDigits(lv) \o <<")">>

\* C1: anchor invariance: for every configuration (any seed, any lightness
\* method, any hue-shift mode) the colour generateColorPalette emits at the
\* anchor level is the seed's normalized lowercase 6-digit hex form itself.
C1_AnchorInvariance ==
    SingleReturned =>
        /\ PaletteKey(ToDigits(Anchor)) \in DOMAIN palette
        /\ palette[PaletteKey(ToDigits(Anchor))] = NormalForm(TheSeed)

\* a seed spelled in upper case without "#", whose normalized form differs
\* from what was passed, has been generated and sits at its anchor
C1_Witness ==
    /\ SingleReturned
    /\ TheSeed = <<"3", "B", "8", "2", "F", "6">>
    /\ TheConfig.hueShiftMode = "unnatural"
    /\ palette[PaletteKey(ToDigits(Anchor))] = <<"#", "3", "b", "8", "2", "f", "6">>

IsHexLiteral(value) ==
    /\ Len(value) = 7
    /\ value[1] = "#"
    /\ \A i \in 2..7 : value[i] \in HexChars

\* C6: token set: for every single configuration (a malformed seed
\* included) the palette has the key --{prefix}-{level} for each of the 11
\* levels, holding a literal 6-hex-digit colour, and the key --{prefix}-color
\* holding the reference var(--{prefix}-{anchor}).
C6_TokenSet ==
    SingleReturned =>
        /\ Cardinality(Levels) = 11
        /\ \A lv \in Levels :
            /\ PaletteKey(ToDigits(lv)) \in DOMAIN palette
            /\ IsHexLiteral(palette[PaletteKey(ToDigits(lv))])
        /\ PaletteKey(<<"c", "o", "l", "o", "r">>) \in DOMAIN palette
        /\ palette[PaletteKey(<<"c", "o", "l", "o", "r">>)] = Reference(Anchor)

\* a malformed seed has been generated: 11 literal colours and the reference
\* to level 950, where the black fallback is anchored
C6_Witness ==
    /\ SingleReturned
    /\ TheSeed = <<"#", "g", "g", "g", "g", "g", "g">>
    /\ palette[PaletteKey(<<"c", "o", "l", "o", "r">>)] = Reference(950)
    /\ \A lv \in Levels : IsHexLiteral(palette[PaletteKey(ToDigits(lv))])

ClampIndex(k) == IF k < 0 THEN 0 ELSE IF k > 10 THEN 10 ELSE k
AliasOf(name) == palette[PaletteKey(name)]

\* C7: variation aliases: with the anchor at index i of the sorted level
\* list, lighter/light/dark/darker are references to the levels at indices
\* i-2, i-1, i+1, i+2, each clamped into [0, 10] (never wrapping around).
C7_VariationAliases ==
    SingleReturned =>
        /\ AliasOf(<<"l", "i", "g", "h", "t", "e", "r">>) = Reference(SCALE_LEVELS[ClampIndex(AnchorIndex - 2) + 1])
        /\ AliasOf(<<"l", "i", "g", "h", "t">>) = Reference(SCALE_LEVELS[ClampIndex(AnchorIndex - 1) + 1])
        /\ AliasOf(<<"d", "a", "r", "k">>) = Reference(SCALE_LEVELS[ClampIndex(AnchorIndex + 1) + 1])
        /\ AliasOf(<<"d", "a", "r", "k", "e", "r">>) = Reference(SCALE_LEVELS[ClampIndex(AnchorIndex + 2) + 1])

\* the anchor is one step from the light end: lighter is clamped to level 50,
\* the same level as light, and does not wrap to the dark end
C7_Witness ==
    /\ SingleReturned
    /\ Anchor = 100
    /\ AliasOf(<<"l", "i", "g", "h", "t", "e", "r">>) = Reference(50)
    /\ AliasOf(<<"l", "i", "g", "h", "t">>) = Reference(50)
    /\ AliasOf(<<"d", "a", "r", "k", "e", "r">>) = Reference(300)

Aliases == {AliasOf(<<"l", "i", "g", "h", "t", "e", "r">>), AliasOf(<<"l", "i", "g", "h", "t">>), AliasOf(<<"d", "a", "r", "k">>), AliasOf(<<"d", "a", "r", "k", "e", "r">>)}

\* C8 as stated: in the palette generated for a seed colour the four aliases
\* lighter, light, dark and darker reference four pairwise different levels.
C8_AliasesDistinct ==
    SingleReturned => Cardinality(Aliases) = 4

\* C8, amended: when the anchor is at least two positions away from both
\* ends of the level list (levels 200 to 800), the four aliases reference
\* four pairwise different levels; nearer to an end two of the clamped
\* aliases coincide, leaving three different levels.
C8_AliasesDistinctInside ==
    SingleReturned =>
        /\ AnchorIndex \in 2..8 => Cardinality(Aliases) = 4
        /\ AnchorIndex \notin 2..8 => Cardinality(Aliases) = 3

\* the seed #3b82f6 with the hybrid method is anchored at level 500 and its
\* aliases are four different references
C8_Witness ==
    /\ SingleReturned
    /\ TheSeed = <<"#", "3", "b", "8", "2", "f", "6">>
    /\ TheMethod = "hybrid"
    /\ Anchor = 500
    /\ Cardinality(Aliases) = 4
    /\ AliasOf(<<"l", "i", "g", "h", "t", "e", "r">>) # AliasOf(<<"l", "i", "g", "h", "t">>)
    /\ AliasOf(<<"d", "a", "r", "k", "e", "r">>) # AliasOf(<<"d", "a", "r", "k">>)

-----------------------------------------------------------------------------
(* Claims about the transparent colours (SpecTransparent) *)

\* the number a string of decimal digits denotes
RECURSIVE DecimalValue(_)
DecimalValue(str) ==
    IF Len(str) = 0 THEN 0
    ELSE 10 * DecimalValue(SubSeq(str, 1, Len(str) - 1)) + HexValue(str[Len(str)])

\* the positions of the commas of a string, in increasing order
CommasOf(str) ==
    LET at == {i \in 1..Len(str) : str[i] = ","}
    IN  [k \in 1..Cardinality(at) |->
            CHOOSE i \in at : Cardinality({j \in at : j < i}) = k - 1]

\* the channels and the alpha (in thousandths) a string "rgba(r, g, b, a)"
\* denotes
RgbaFields(str) ==
    LET c == CommasOf(str)
        a == SubSeq(str, c[3] + 2, Len(str) - 1)
    IN  [r |-> DecimalValue(SubSeq(str, 6, c[1] - 1)),
         g |-> DecimalValue(SubSeq(str, c[1] + 2, c[2] - 1)),
         b |-> DecimalValue(SubSeq(str, c[2] + 2, c[3] - 1)),
         milli |-> DecimalValue(SelectSeq(a, LAMBDA ch : ch # "."))]

IsRgba(str) ==
    /\ Len(str) > 6
    /\ SubSeq(str, 1, 5) = <<"r", "g", "b", "a", "(">>
    /\ str[Len(str)] = ")"
    /\ Len(CommasOf(str)) = 3

\* the alpha of the call as a fraction in lowest terms
AlphaNum == compositeAlpha \div GCD(compositeAlpha, AU)
AlphaDen == AU \div GCD(compositeAlpha, AU)

\* alpha * fg + (1 - alpha) * bg of one channel, rounded to an integer
Composite(fg, bg) ==
    (2 * (AlphaNum * fg + (AlphaDen - AlphaNum) * bg) + AlphaDen) \div (2 * AlphaDen)

\* (target - (1 - alpha) * bg) / alpha of one channel rounds into 0..255
Unclamped(target, bg) ==
    /\ 2 * (target * AlphaDen - bg * (AlphaDen - AlphaNum)) >= 0 - AlphaNum
    /\ 2 * (target * AlphaDen - bg * (AlphaDen - AlphaNum)) < 511 * AlphaNum

Channels == {"r", "g", "b"}

\* a call with two well-formed colours and the alpha of a level has returned
LevelCallReturned ==
    /\ rgbaString # << >>
    /\ compositeAlpha \in LevelAlphas
    /\ HexPattern(targetSolid)
    /\ HexPattern(background)

\* C11 as stated: the returned foreground, composited over the background at
\* the alpha of the level and rounded, is the target colour on every channel.
C11_Reproduces ==
    LevelCallReturned =>
        /\ IsRgba(rgbaString)
        /\ \A ch \in Channels :
               Composite(RgbaFields(rgbaString)[ch], hexToRGB(background)[ch])
                   = hexToRGB(targetSolid)[ch]

\* C11 (amended): the returned foreground, composited over the background at
\* the alpha of the level and rounded, is the target colour on every channel
\* whose inverted value (target - (1 - alpha) * bg) / alpha rounds into
\* [0, 255], that is, on every channel that is not clamped.
C11_ReproducesUnclamped ==
    LevelCallReturned =>
        /\ IsRgba(rgbaString)
        /\ \A ch \in Channels :
               Unclamped(hexToRGB(targetSolid)[ch], hexToRGB(background)[ch]) =>
                   Composite(RgbaFields(rgbaString)[ch], hexToRGB(background)[ch])
                       = hexToRGB(targetSolid)[ch]

\* a translucent level whose three channels are all inverted without
\* clamping, to a foreground that differs from the target
C11_Witness ==
    /\ LevelCallReturned
    /\ compositeAlpha < MAX_ALPHA
    /\ \A ch \in Channels :
           /\ Unclamped(hexToRGB(targetSolid)[ch], hexToRGB(background)[ch])
           /\ RgbaFields(rgbaString)[ch] # hexToRGB(targetSolid)[ch]

\* a call with two well-formed colours has returned
ColorCallReturned ==
    /\ rgbaString # << >>
    /\ HexPattern(targetSolid)
    /\ HexPattern(background)

\* every foreground that composites to the target of the call over the
\* background of the call is recovered within 1 on every channel
RecoversForeground ==
    /\ IsRgba(rgbaString)
    /\ LET target == hexToRGB(targetSolid)
           bg == hexToRGB(background)
           recovered == RgbaFields(rgbaString)
       IN  \A ch \in Channels : \A fg \in 0..255 :
               Composite(fg, bg[ch]) = target[ch] => Abs(recovered[ch] - fg) <= 1

\* C12 as stated: for alpha in [minAlpha, maxAlpha] and a target that is
\* alpha * fg + (1 - alpha) * bg rounded, the call recovers fg within 1 on
\* every channel.
C12_Inversion ==
    (ColorCallReturned /\ compositeAlpha >= MIN_ALPHA /\ compositeAlpha <= MAX_ALPHA)
        => RecoversForeground

\* C12 (amended): for alpha in [1/3, maxAlpha] and a target that is
\* alpha * fg + (1 - alpha) * bg rounded, the call recovers fg within 1 on
\* every channel.
C12_InversionFromThird ==
    (ColorCallReturned /\ 3 * compositeAlpha >= AU /\ compositeAlpha <= MAX_ALPHA)
        => RecoversForeground

\* a translucent call whose three target channels are composites, one of
\* them of a foreground that is recovered one off
C12_Witness ==
    /\ ColorCallReturned
    /\ 3 * compositeAlpha >= AU
    /\ compositeAlpha < MAX_ALPHA
    /\ \A ch \in Channels : \E fg \in 0..255 :
           Composite(fg, hexToRGB(background)[ch]) = hexToRGB(targetSolid)[ch]
    /\ \E ch \in Channels : \E fg \in 0..255 :
           /\ Composite(fg, hexToRGB(background)[ch]) = hexToRGB(targetSolid)[ch]
           /\ Abs(RgbaFields(rgbaString)[ch] - fg) = 1

\* the string is a colour: six hexadecimal digits, with or without "#",
\* possibly within blanks
ParsesAsColor(str) ==
    LET clean == Trim(str)
    IN  HexPattern(IF Len(clean) > 0 /\ clean[1] = "#" THEN clean
                                                       ELSE <<"#">> \o clean)

\* C15 as stated: when the target or the background of a call is no colour,
\* the call returns the opaque black fallback, channels 0, 0, 0 and alpha 1.
C15_ParseFailureFallback ==
    (rgbaString # << >> /\ (~ParsesAsColor(targetSolid) \/ ~ParsesAsColor(background)))
        => /\ IsRgba(rgbaString)
           /\ RgbaFields(rgbaString) = [r |-> 0, g |-> 0, b |-> 0, milli |-> 1000]

-----------------------------------------------------------------------------
(* Claims about the transparent tokens (SpecTokens) *)

\* a call of setTransparentPalette has returned
TokensReturned == tokensSet /\ tokenConfig # << >>

\* a call of generateColorPalette with one configuration has returned
GeneratedReturned == returned /\ ~input.isArray /\ Len(input.configs) = 1

\* the light background for a level up to the anchor level of the
\* transparency, the dark background for a level beyond it
SelectedBackground(lv, anchorLevel, light, dark) ==
    IF lv <= anchorLevel THEN light ELSE dark

\* every transparent token of the palette is the solid colour of its level
\* inverted against the background selected for the level
InvertedAgainstSelected(pal, colorConfig) ==
    \A lv \in Levels :
        TransparentKey(colorConfig.prefix, lv) \in DOMAIN pal =>
            pal[TransparentKey(colorConfig.prefix, lv)]
                = calculateTransparentColor(
                      pal[LevelKey(colorConfig.prefix, lv)],
                      SelectedBackground(lv, colorConfig.transparentOriginLevel,
                                         colorConfig.bgColorLight,
                                         colorConfig.bgColorDark),
                      getAlphaForLevel(lv, colorConfig.transparentOriginLevel))

\* C13 (background selection): a transparent token of a level less than or
\* equal to the transparency anchor level is inverted against the light
\* background, one of a level greater than it against the dark background.
C13_BackgroundSelection ==
    /\ TokensReturned => InvertedAgainstSelected(tokenPalette, tokenConfig)
    /\ (GeneratedReturned /\ input.configs[1].includeTransparent) =>
           InvertedAgainstSelected(palette, NormalizeConfig(input.configs[1]))

\* an anchor in the middle and different backgrounds: a lighter level whose
\* token would differ over the dark background, and a darker level whose
\* token would differ over the light one
C13_Witness ==
    /\ TokensReturned
    /\ tokenConfig.transparentOriginLevel = 500
    /\ {TransparentKey(PrefixP, 300), TransparentKey(PrefixP, 700)}
           \subseteq DOMAIN tokenPalette
    /\ tokenPalette[TransparentKey(PrefixP, 300)]
           # calculateTransparentColor(tokenPalette[LevelKey(PrefixP, 300)],
                                       tokenConfig.bgColorDark,
                                       getAlphaForLevel(300, 500))
    /\ tokenPalette[TransparentKey(PrefixP, 700)]
           # calculateTransparentColor(tokenPalette[LevelKey(PrefixP, 700)],
                                       tokenConfig.bgColorLight,
                                       getAlphaForLevel(700, 500))

TransparentSuffix == <<"-", "t", "r", "a", "n", "s", "p", "a", "r", "e", "n", "t">>

\* the key ends in "-transparent"
IsTransparentKey(key) ==
    /\ Len(key) >= Len(TransparentSuffix)
    /\ SubSeq(key, Len(key) - Len(TransparentSuffix) + 1, Len(key)) = TransparentSuffix

TransparentKeysOf(pal) == {key \in DOMAIN pal : IsTransparentKey(key)}

\* the palette has an entry for the level that is a string other than
\* blanks and "undefined"
DefinedSolid(pal, prefix, lv) ==
    /\ LevelKey(prefix, lv) \in DOMAIN pal
    /\ \E i \in 1..Len(pal[LevelKey(prefix, lv)]) : pal[LevelKey(prefix, lv)][i] # " "
    /\ Trim(pal[LevelKey(prefix, lv)]) # <<"u", "n", "d", "e", "f", "i", "n", "e", "d">>

\* the transparent keys of the palette are those of the levels that have a
\* defined solid colour
OnePerDefinedSolid(pal, prefix) ==
    TransparentKeysOf(pal)
        = {TransparentKey(prefix, lv) : lv \in {l \in Levels : DefinedSolid(pal, prefix, l)}}

\* the configuration carries an anchor level and both backgrounds, as the
\* configuration generateColorPalette passes on does
HasTransparency(colorConfig) ==
    /\ colorConfig.transparentOriginLevel # 0
    /\ Len(colorConfig.bgColorLight) > 0
    /\ Len(colorConfig.bgColorDark) > 0

-----------------------------------------------------------------------------
(* Claims about malformed and unrecognized options (SpecPalette) *)

BlackSeed == <<"#", "0", "0", "0", "0", "0", "0">>

\* the input of the call with another seed colour
WithColor(color) ==
    [isArray |-> FALSE,
     configs |-> <<[TheConfig EXCEPT !.color = color, !.colorType = "string"]>>]

\* C16 as stated: for every malformed seed (empty, wrong length, characters
\* that are no hexadecimal digits, or no string at all) generateColorPalette
\* returns, and returns exactly the palette it returns for the seed #000000
\* with the same remaining configuration.
C16_MalformedSeed ==
    (SingleReturned /\ (TheConfig.colorType # "string" \/ ~ParsesAsColor(TheSeed))) =>
        /\ DOMAIN palette # {}
        /\ palette = generateColorPalette(WithColor(BlackSeed))

\* C16 (malformed seed colour), amended: for every seed whose conversion to a
\* string is, once trimmed, not six hexadecimal digits with or without "#"
\* (empty, wrong length, other characters, a number with other than six
\* digits) generateColorPalette returns, and returns exactly the palette it
\* returns for the seed #000000 with the same remaining configuration.
C16_MalformedText ==
    (SingleReturned /\ ~ParsesAsColor(TheSeed)) =>
        /\ DOMAIN palette # {}
        /\ palette = generateColorPalette(WithColor(BlackSeed))

\* a number whose digits are no colour has been passed as the seed: the
\* palette is anchored at 950, where it holds black
C16_Witness ==
    /\ SingleReturned
    /\ TheConfig.colorType = "number"
    /\ ~ParsesAsColor(TheSeed)
    /\ palette[PaletteKey(ToDigits(950))] = BlackSeed
    /\ palette[PaletteKey(<<"c", "o", "l", "o", "r">>)] = Reference(950)

\* the input of the call with another lightness method
WithMethod(method) ==
    [isArray |-> FALSE, configs |-> <<[TheConfig EXCEPT !.lightnessMethod = method]>>]

\* the lightness method is a string outside the enumeration
UnrecognizedMethod ==
    TheConfig.lightnessMethod \notin LightnessMethods \cup {""}

\* C17 as stated: for every seed colour, generateColorPalette called with a
\* lightnessMethod that is none of hsl, perceptual, average and hybrid
\* returns the same palette as with the default method hybrid.
C17_UnrecognizedMethod ==
    (SingleReturned /\ UnrecognizedMethod) =>
        palette = generateColorPalette(WithMethod("hybrid"))

-----------------------------------------------------------------------------
(* Claims about the hue shift (SpecHue) *)

\* C18 as stated: for every baseHue, NaN and +/-Infinity included, and every
\* scale, one whose values are all equal included, calculateHueShift in
\* natural or unnatural mode returns, and returns a finite hue in [0, 360).
C18_FiniteHue ==
    (hueState \in {"looping", "returned"} /\ hueCall.hueShiftMode # "fixed") =>
        /\ hueState = "returned"
        /\ isFinite(newHue)
        /\ 0 <= newHue.v
        /\ newHue.v < 360 * LU

-----------------------------------------------------------------------------
(* Claims about a list of configurations (SpecPalette) *)

ListReturned == returned /\ input.isArray

\* the palette of the i-th configuration of the list, passed on its own
PaletteOfConfig(i) ==
    generateColorPalette([isArray |-> FALSE, configs |-> <<input.configs[i]>>])
PalettesOfConfigs == [i \in 1..Len(input.configs) |-> PaletteOfConfig(i)]

\* the last of the palettes that has the key
LastWith(palettes, key) ==
    CHOOSE i \in 1..Len(palettes) :
        /\ key \in DOMAIN palettes[i]
        /\ \A j \in (i + 1)..Len(palettes) : key \notin DOMAIN palettes[j]

\* pal has the keys of the palettes, each with the value of the last palette
\* that has the key
MergedInOrder(pal, palettes) ==
    /\ DOMAIN pal = UNION {DOMAIN palettes[i] : i \in 1..Len(palettes)}
    /\ \A key \in DOMAIN pal : pal[key] = palettes[LastWith(palettes, key)][key]
    /\ Len(palettes) = 0 => pal = EmptyPalette
    /\ Len(palettes) = 1 => pal = palettes[1]

\* C19 (list input): for every ordered list of configurations the palette of
\* the list has the keys of the palettes of its configurations, each with the
\* value of the last configuration that has the key; so the empty list gives
\* the empty palette and a list of one the palette of that configuration.
C19_ListMerge ==
    ListReturned =>
        LET Merged[palettes \in {PalettesOfConfigs}] == MergedInOrder(palette, palettes)
        IN  Merged[PalettesOfConfigs]

\* a list of two configurations with the same prefix and different seeds has
\* been generated: the solid levels are those of the second, while the
\* transparent tokens, which only the first has, remain
C19_Witness ==
    /\ ListReturned
    /\ Len(input.configs) = 2
    /\ input.configs[1].prefix = input.configs[2].prefix
    /\ input.configs[1].includeTransparent
    /\ ~input.configs[2].includeTransparent
    /\ PaletteOfConfig(1)[PaletteKey(ToDigits(500))] # PaletteOfConfig(2)[PaletteKey(ToDigits(500))]
    /\ palette[PaletteKey(ToDigits(500))] = PaletteOfConfig(2)[PaletteKey(ToDigits(500))]
    /\ TransparentKey(PrefixP, 500) \in DOMAIN palette

-----------------------------------------------------------------------------
(* Claims about the text colours (SpecPalette) *)

StartsWith(str, start) ==
    Len(str) >= Len(start) /\ SubSeq(str, 1, Len(start)) = start

\* the keys --{prefix}-text-color* of a palette
TextColorKeysOf(pal) ==
    {key \in DOMAIN pal : StartsWith(key, PaletteKey(TextColorName))}
OnLightKey == PaletteKey(TextColorName \o <<"-", "o", "n", "-", "l", "i", "g", "h", "t">>)
OnDarkKey == PaletteKey(TextColorName \o <<"-", "o", "n", "-", "d", "a", "r", "k">>)
IsReference(value) == \E lv \in Levels : value = Reference(lv)

\* C20 as stated: with includeTextColors true the palette has the keys
\* --{prefix}-text-color-on-light and --{prefix}-text-color-on-dark, each a
\* reference var(--{prefix}-{level}); with includeTextColors false or unset
\* it has no key --{prefix}-text-color* at all.
C20_TextColorPresence ==
    SingleReturned =>
        IF TheConfig.includeTextColors
            THEN /\ {OnLightKey, OnDarkKey} \subseteq DOMAIN palette
                 /\ IsReference(palette[OnLightKey])
                 /\ IsReference(palette[OnDarkKey])
            ELSE TextColorKeysOf(palette) = {}

-----------------------------------------------------------------------------
(* Claims about adjusting a colour to a lightness (SpecAdjust) *)

AdjustReturned == adjusted # << >>
TheAdjustMethod == adjustCall.lightnessMethod

\* adjustToLightness with the hue and the saturation of the call
Inverted(targetLightness) ==
    adjustToLightness(Fin(adjustCall.h), adjustCall.s, targetLightness, TheAdjustMethod)

\* C21 as stated: for the method hsl and every hue h, saturation s and target
\* L, with c = adjustToLightness(h, s, L, hsl), the call
\* adjustToLightness(h, s, getLightness(c, hsl), hsl) returns the colour c.
C21_HslRoundTrip ==
    (AdjustReturned /\ TheAdjustMethod = "hsl") =>
        Inverted(getLightness(adjusted, "hsl")) = adjusted

SearchMethods == {"perceptual", "average", "hybrid"}

\* the distance of the measure of the returned colour from the target
ReturnedError ==
    Abs(getLightness(adjusted, TheAdjustMethod) - adjustCall.targetLightness)

\* C22 (bounded search error): for the methods perceptual, average and
\* hybrid, every hue, saturation and target L in [0, 100], the colour
\* adjustToLightness returns has a measured lightness within 3 of the target.
C22_BoundedSearchError ==
    (AdjustReturned /\ TheAdjustMethod \in SearchMethods) => ReturnedError < 3 * LU

\* a search has used all 18 iterations and returned a colour that misses its
\* target by more than 0.001
C22_Witness ==
    /\ AdjustReturned
    /\ TheAdjustMethod \in SearchMethods
    /\ search.i = 18
    /\ ~BelowPrecision(ReturnedError)
    /\ ReturnedError < 3 * LU

HueReturned == hueState = "returned"

\* C24 (fixed-mode no-op): for every base hue h, finite or not, in [0, 360)
\* or not, every base and target lightness and every scale, calculateHueShift
\* in fixed mode returns h unchanged.
C24_FixedNoOp ==
    (HueReturned /\ hueCall.hueShiftMode = "fixed") => newHue = hueCall.baseHue

\* a hue above 360 has come back from fixed mode as it was passed, for a
\* target lightness that differs from the base lightness
C24_Witness ==
    /\ HueReturned
    /\ hueCall.hueShiftMode = "fixed"
    /\ hueCall.targetLightness # hueCall.baseLightness
    /\ isFinite(hueCall.baseHue)
    /\ hueCall.baseHue.v > Period
    /\ newHue = hueCall.baseHue

\* the result of the same call in another mode
ResultInMode(mode) == HueResult([hueCall EXCEPT !.hueShiftMode = mode])

\* result minus base hue, taken modulo 360 into (-180, 180]
SignedDelta(result, base) ==
    LET d == Mod360(result.v - base.v)
    IN  IF d > 180 * LU THEN d - Period ELSE d

\* C25 as stated: for identical base hue, base lightness, target lightness
\* and scale, the signed hue delta of calculateHueShift in unnatural mode is
\* the negation of the delta in natural mode.
C25_UnnaturalNegatesNatural ==
    (hueState \in {"looping", "returned"} /\ hueCall.hueShiftMode = "unnatural") =>
        /\ HueReturned
        /\ isFinite(hueCall.baseHue)
        /\ isFinite(newHue)
        /\ isFinite(ResultInMode("natural"))
        /\ SignedDelta(newHue, hueCall.baseHue)
               = 0 - SignedDelta(ResultInMode("natural"), hueCall.baseHue)

-----------------------------------------------------------------------------
(* Claims about normalizeHue (SpecNormalize) *)

\* the integers k for which the model holds x + 360k
ShiftsOf(x) ==
    {0} \cup (IF x <= 700 * LU - Period THEN {1} ELSE {})
        \cup (IF x >= Period - 700 * LU THEN {0 - 1} ELSE {})

\* C23 as stated: for every finite x, normalizeHue(x) returns a hue in
\* [0, 360), and normalizeHue(x + 360k) returns the same hue for every
\* integer k.
C23_HueNormalization ==
    hueState \in {"looping", "returned"} =>
        /\ hueState = "returned"
        /\ isFinite(newHue)
        /\ 0 <= newHue.v
        /\ newHue.v < Period
        /\ \A k \in ShiftsOf(hueCall.hue.v) :
               normalizeHue(Fin(hueCall.hue.v + k * Period)) = newHue

\* the colour of the call's hue and saturation at the lightness of a midpoint
ColorAt(mid) == rgbToHex(hslToRGB(adjustCall.h, adjustCall.s, MidLightness(mid)))
\* the absolute error of a midpoint: |measured - target|
ErrorAt(mid) ==
    Abs(getLightness(ColorAt(mid), TheAdjustMethod) - adjustCall.targetLightness)
ErrorsTried == [j \in 1..Len(tried) |-> ErrorAt(tried[j])]

\* best is the first of the midpoints whose error is the least of the errors
FirstLeast(errors, best, bestError) ==
    /\ \A j \in 1..Len(errors) : bestError <= errors[j]
    /\ \E j \in 1..Len(errors) :
          /\ errors[j] = bestError
          /\ tried[j] = best
          /\ \A k \in 1..(j - 1) : errors[k] > bestError

\* C26 (best-candidate tracking): after every iteration of the bisection
\* bestDiff is the least absolute error of the midpoints tried so far and
\* bestL the first midpoint that achieved it, and the colour returned is the
\* colour at bestL.
C26_BestCandidate ==
    (TheAdjustMethod # "hsl" /\ search.i >= 1) =>
        /\ Len(tried) = search.i
        /\ isFinite(search.bestDiff)
        /\ LET Tracked[errors \in {ErrorsTried}] ==
                   FirstLeast(errors, search.bestL, search.bestDiff.v)
           IN  Tracked[ErrorsTried]
        /\ AdjustReturned => adjusted = ColorAt(search.bestL)

\* a search has returned the colour of a midpoint that is not the last one
\* tried, and a later midpoint was exactly as good as the best one
C26_Witness ==
    /\ AdjustReturned
    /\ TheAdjustMethod # "hsl"
    /\ search.bestL # tried[Len(tried)]
    /\ \E j \in 1..Len(tried) :
          tried[j] # search.bestL /\ ErrorAt(tried[j]) = search.bestDiff.v
    /\ adjusted = ColorAt(search.bestL)

\* the iterations of the search so far that did not exit
Halvings == IF search.done THEN search.i - 1 ELSE search.i

\* C27 (bisection termination): for every hue, saturation, target lightness
\* and method other than hsl the search keeps 0 <= low <= high <= 100, halves
\* the interval in every iteration that does not exit, and stops by the
\* precision test or the interval test after at most 18 iterations, never by
\* the cap of MAX_ITERATIONS.
C27_BisectionTerminates ==
    TheAdjustMethod # "hsl" =>
        /\ 0 <= search.low /\ search.low <= search.high
        /\ search.high <= SearchUnits
        /\ search.i <= 18
        /\ search.i < MAX_ITERATIONS
        /\ (search.high - search.low) * (2 ^ Halvings) = SearchUnits
        /\ search.done =>
              \/ BelowPrecision(ErrorAt(search.mid))
              \/ NarrowInterval(search.high - search.low)

\* a search has stopped in its 18th iteration by the interval test alone,
\* with both ends of the interval moved
C27_Witness ==
    /\ AdjustReturned
    /\ TheAdjustMethod # "hsl"
    /\ search.i = 18
    /\ NarrowInterval(search.high - search.low)
    /\ ~BelowPrecision(ErrorAt(search.mid))
    /\ 0 < search.low /\ search.high < SearchUnits

-----------------------------------------------------------------------------
(* Claims about the text colour and the references (SpecPalette) *)

\* the perceptual lightness of the seed and of the colour a level holds
SeedPerceptual == getLightness(NormalForm(TheSeed), "perceptual")
PerceptualOf(lv) == getLightness(palette[PaletteKey(ToDigits(lv))], "perceptual")
\* the levels whose colour has perceptual lightness 70 or below
QualifyingLevels == {lv \in Levels : PerceptualOf(lv) <= 70 * LU}
\* the input colour is the darker of the two candidates, or no level qualifies
InputIsDarker ==
    \/ QualifyingLevels = {}
    \/ SeedPerceptual < PerceptualOf(SetMin(QualifyingLevels))
\* the level the text colour refers to
TextColorLevel ==
    CHOOSE lv \in Levels : palette[PaletteKey(TextColorName)] = Reference(lv)

\* C28 (the text colour is the darker of two candidates): the text colour
\* refers to the lowest level whose colour has perceptual lightness 70 or
\* below when that colour is at least as dark as the input colour, and to
\* the anchor level, where the input colour stands, when the input colour is
\* the darker one or no level qualifies.
C28_TextColorDarker ==
    SingleReturned =>
        /\ \E lv \in Levels : palette[PaletteKey(TextColorName)] = Reference(lv)
        /\ TextColorLevel = IF InputIsDarker THEN Anchor
                                             ELSE SetMin(QualifyingLevels)

\* the names of the symbolic tokens
SymbolicNames ==
    {ColorName, TextColorName, <<"l", "i", "g", "h", "t", "e", "r">>,
     <<"l", "i", "g", "h", "t">>, <<"d", "a", "r", "k">>,
     <<"d", "a", "r", "k", "e", "r">>}
PrefixesOfInput == {input.configs[i].prefix : i \in 1..Len(input.configs)}
\* the text of a reference to a level of a prefix, and the key it names
ReferenceTo(prefix, lv) ==
    <<"v", "a", "r", "(", "-", "-">> \o prefix \o <<"-">> \o ToDigits(lv) \o <<")">>
KeyOfLevel(prefix, lv) == <<"-", "-">> \o prefix \o <<"-">> \o ToDigits(lv)
KeyOfName(prefix, name) == <<"-", "-">> \o prefix \o <<"-">> \o name
\* a value that is a reference of some form
LooksLikeReference(value) == StartsWith(value, <<"v", "a", "r", "(">>)
\* the value refers to one of the 11 levels of the prefix, and the palette
\* holds a literal hex colour at that level
ResolvesIn(pal, prefix, value) ==
    \E lv \in Levels :
        /\ value = ReferenceTo(prefix, lv)
        /\ KeyOfLevel(prefix, lv) \in DOMAIN pal
        /\ IsHexLiteral(pal[KeyOfLevel(prefix, lv)])

\* C29 (no dangling references): in every palette generateColorPalette
\* returns, each symbolic token (color, lighter, light, dark, darker,
\* text-color) of each prefix is var(--{prefix}-{level}) with the same prefix
\* and one of the 11 levels, the key it names is in the same palette and
\* holds a literal hex colour, and no other key holds a reference.
C29_NoDanglingReference ==
    returned =>
        /\ \A prefix \in PrefixesOfInput : \A name \in SymbolicNames :
              /\ KeyOfName(prefix, name) \in DOMAIN palette
              /\ ResolvesIn(palette, prefix, palette[KeyOfName(prefix, name)])
        /\ \A key \in DOMAIN palette :
              LooksLikeReference(palette[key]) =>
                  \E prefix \in PrefixesOfInput : \E name \in SymbolicNames :
                      key = KeyOfName(prefix, name)

\* a list with two prefixes has returned a palette in which the text colour
\* of one prefix refers to another level than its color token
C29_Witness ==
    /\ ListReturned
    /\ PrefixesOfInput = {PrefixP, PrefixQ}
    /\ palette[KeyOfName(PrefixP, TextColorName)] # palette[KeyOfName(PrefixP, ColorName)]
    /\ ResolvesIn(palette, PrefixP, palette[KeyOfName(PrefixP, TextColorName)])
    /\ ResolvesIn(palette, PrefixQ, palette[KeyOfName(PrefixQ, <<"d", "a", "r", "k", "e", "r">>)])

-----------------------------------------------------------------------------
(* Claims about the scale the palette hands to calculateHueShift (SpecPalette) *)

\* the lightness of the seed by the method of the configuration, and the
\* scale generateColorPalette computes from it (palette.ts, lines 80-95)
SeedLightness == getLightness(NormalForm(TheSeed), TheMethod)
PipelineScale == calculateEvenScale(Fin(SeedLightness), Anchor)
ScaleRange(sc) == SetMax(ValuesOf(sc)) - SetMin(ValuesOf(sc))
\* the normalized lightness difference of a level, in units of 10^-6
NormalizedDiff(sc, lv) == calculateHueIntensityByLightness(sc[lv] - sc[Anchor], sc)

\* C30 (no division by zero in the palette pipeline): for every seed and
\* lightness method the scale handed to calculateHueShift has a maximum
\* strictly above its minimum (the anchor is not level 50 at lightness 16 nor
\* level 950 at lightness 96), so the normalized lightness difference of
\* every level is a finite number in [-1, 1].
C30_ScaleHasRange ==
    SingleReturned =>
        LET Ranged[sc \in {PipelineScale}] ==
                /\ ScaleRange(sc) > 0
                /\ ~(Anchor = MIN_LEVEL /\ sc[Anchor] = MIN_LIGHTNESS * LU)
                /\ ~(Anchor = MAX_LEVEL /\ sc[Anchor] = MAX_LIGHTNESS * LU)
                /\ \A lv \in Levels :
                      /\ isFinite(NormalizedDiff(sc, lv))
                      /\ NormalizedDiff(sc, lv).v >= 0 - 1000000
                      /\ NormalizedDiff(sc, lv).v <= 1000000
        IN  Ranged[PipelineScale]

\* a seed darker than MIN_LIGHTNESS is anchored at the darkest level with the
\* clamped lightness, and the lightest level is a full range above it
C30_Witness ==
    /\ SingleReturned
    /\ SeedLightness < MIN_LIGHTNESS * LU
    /\ Anchor = MAX_LEVEL
    /\ PipelineScale[Anchor] = MIN_LIGHTNESS * LU
    /\ NormalizedDiff(PipelineScale, MIN_LEVEL) = Fin(1000000)

====
